---- MODULE Spec2Model ----
(***************************************************************************)
(* A model of zdm_publisher: the fetch / filter / dedupe pipeline, the     *)
(* push-state store and the main run that ties them together.              *)
(*                                                                         *)
(* Representation of Python values                                         *)
(*   - a str that the code inspects character by character (a title, an    *)
(*     article_time, a piece of SQL) is a sequence of one-character        *)
(*     strings.  The module is ASCII, so the CJK characters of the         *)
(*     flash-sale pattern are written  "Q" (qian, U+524D),  "M" (ming,     *)
(*     U+540D)  and  "S" (san, U+4E09, the non-digit numeral three).       *)
(*   - an article_id is a TLA+ string; None stands for Python's None / a   *)
(*     missing key.                                                        *)
(*   - a vote or comment count is tagged with its Python type: IntV(n) is  *)
(*     the int n, StrV(n) the str holding the decimal digits of n, NoneV    *)
(*     a None passed where an int is optional.                             *)
(***************************************************************************)
EXTENDS Integers, Sequences, FiniteSets, TLC

VARIABLES
    \* DataProcessingService and the locals of process_data
    min_vote_threshold, min_comment_threshold,
    raw_items, pushed_ids, unique_items, kept_items, sorted_items, ppc

VARIABLES
    \* DatabaseUtil: the connection, the rows it sees and the committed rows
    conn, db, disk,
    \* the store operations performed last and before it, and the last result
    \* of get_unpushed_records
    store_op, store_prev, unpushed

VARIABLES
    \* main(): its position, the configuration flags, its locals and its
    \* return value
    pc, use_email, use_wechat, filtered_items, results, main_ret,
    \* history: the configuration validate_config read in this run had an
    \* enabled channel whose configuration is complete (FALSE before it ran)
    usable_channel,
    \* the number of the run, the clock (a day number), the number of
    \* crawl_zdm_data calls of the run
    run, now, crawls,
    \* history: update_pushed_status(..., pushed=True) was called in this run;
    \* the ids handed to a channel in this run; the ids of the final lists of
    \* earlier runs for which every enabled channel reported success
    update_called, notified, delivered

procVars == <<min_vote_threshold, min_comment_threshold,
              raw_items, pushed_ids, unique_items, kept_items, sorted_items, ppc>>
storeVars == <<conn, db, disk, store_op, store_prev, unpushed>>

VARIABLES
    \* _fetch_page_data: its position, its locals retry_count and items (fetch_items), the
    \* pending backoff sleep, and the history of its attempts
    fpc, retry_count, fetch_items, wait_time, fetch_log

VARIABLES
    \* CrawlerService: self.cookies and self.cookies_last_updated, the side
    \* file cookies.txt, time.time(), whether the environment is a CI one,
    \* and the last cookie operation with what it did and returned
    \* (cookies_made: the second written into the default cookies that are
    \* held, 0 when the held cookies are not the default ones)
    cookies, cookies_made, cookies_last_updated, cookies_file, clock, is_ci,
    cookie_op,
    \* the number of advances of the clock so far
    ticks

VARIABLES
    \* crawl_zdm_data: its position, the index of the url of the for loop,
    \* its local all_items, and the history of its calls and sleeps
    cpc, url_index, all_items, crawl_log

VARIABLES
    \* the extraction functions applied to one input: the position; the
    \* document handed to _parse_html_content and its result; the argument of
    \* str_number_format and its result; the goods_list handed to
    \* _parse_zdm_items (goods_in) and its result
    epc, html_content, html_items, number_arg, number_ret, goods_in,
    goods_out

VARIABLES
    \* DatabaseUtil on a store file of any age: self._conn ("None" or "open");
    \* the table ZDM of the file ("absent", "lacking" a required column, or
    \* "complete") and the number of its rows; whether the file has a table
    \* ZDM_old and the number of its rows; what the last call of connect() did
    _conn, zdm, zdm_rows, zdm_old, zdm_old_rows, last_connect

mainVars == <<pc, use_email, use_wechat, filtered_items, results, main_ret,
              usable_channel,
              run, now, crawls, update_called, notified, delivered>>

fetchVars == <<fpc, retry_count, fetch_items, wait_time, fetch_log>>

cookieVars == <<cookies, cookies_made, cookies_last_updated, cookies_file,
                clock, is_ci,
                cookie_op, ticks>>

crawlVars == <<cpc, url_index, all_items, crawl_log>>

extractVars == <<epc, html_content, html_items, number_arg, number_ret,
                 goods_in, goods_out>>

schemaVars == <<_conn, zdm, zdm_rows, zdm_old, zdm_old_rows, last_connect>>

vars == <<procVars, storeVars, mainVars, fetchVars, cookieVars, crawlVars,
          extractVars, schemaVars>>

----------------------------------------------------------------------------
(* Bounds of the model *)

MaxItems == 3        \* longest item list fed to the pipeline
MaxFilterLen == 1    \* longest list of the family that varies every filter field
MaxTitleLen == 4     \* longest title of the family that varies the title
MaxIds == 2          \* longest id list handed to update_pushed_status
MaxRuns == 2         \* runs of main() against one store
MaxCrawlLen == 2     \* longest item list a crawl returns to main()
MaxAdvance == 1      \* most days between two runs
StartDay == 40       \* the day of the first run
StartClock == 10000  \* time.time() when the service is constructed
MaxTicks == 3        \* most advances of the clock in a behaviour
MaxNumLen == 4       \* longest string of the family handed to str_number_format
MaxGoods == 2        \* longest goods_list handed to _parse_zdm_items

----------------------------------------------------------------------------
(* Python values *)

None == "<None>"
IntV(n) == [t |-> "int", v |-> n]
StrV(n) == [t |-> "str", v |-> n]
NoneV == [t |-> "none", v |-> 0]

\* Python truthiness of an Optional[str]
Truthy(s) == s # None /\ s # ""

SeqsUpTo(S, n) == UNION {[1..k -> S] : k \in 0..n}

\* the item dict the crawler emits (crawler_service.py: 359-370)
MkItem(id, title, voted, comments, time) ==
    [article_id |-> id, title |-> title, url |-> <<"u">>, pic_url |-> <<>>,
     price |-> <<>>, voted |-> voted, comments |-> comments,
     article_mall |-> <<>>, article_time |-> time, pushed |-> FALSE]

PlainTitle == <<"x">>
NoTime == <<>>

----------------------------------------------------------------------------
(* DataProcessingService *)

DefaultMinVote == 10
DefaultMinComment == 5

\* re: \d on the characters the model uses
IsDigit(c) == c \in {"0", "1", "2", "3", "4", "5", "6", "7", "8", "9"}

\* \d+ is greedy: the index of the first non-digit at or after k
RECURSIVE SkipDigits(_, _)
SkipDigits(title, k) ==
    IF k <= Len(title) /\ IsDigit(title[k]) THEN SkipDigits(title, k + 1) ELSE k

\* the pattern written with \d instead of \d+
MatchAtOneDigit(title, i) ==
    /\ i + 2 <= Len(title)
    /\ title[i] = "Q"
    /\ IsDigit(title[i + 1])
    /\ title[i + 2] = "M"

\* the compiled pattern  Q \d+ M  tried at position i
MatchAt(title, i) ==
    /\ i <= Len(title)
    /\ title[i] = "Q"
    /\ LET k == SkipDigits(title, i + 1)
       IN  k > i + 1 /\ k <= Len(title) /\ title[k] = "M"

\* flash_sale_pattern.search(title): the pattern tried at every position
RECURSIVE SearchFrom(_, _)
SearchFrom(title, i) ==
    IF i > Len(title) THEN FALSE
    ELSE IF MatchAt(title, i) THEN TRUE
    ELSE SearchFrom(title, i + 1)

flash_sale_pattern_search(title) == SearchFrom(title, 1)

\* for item in items: keep the first item of every truthy article_id
RECURSIVE DedupLoop(_, _, _, _)
DedupLoop(items, i, seen_ids, acc) ==
    IF i > Len(items) THEN acc
    ELSE LET article_id == items[i].article_id
         IN  IF Truthy(article_id) /\ article_id \notin seen_ids
             THEN DedupLoop(items, i + 1, seen_ids \cup {article_id},
                            Append(acc, items[i]))
             ELSE DedupLoop(items, i + 1, seen_ids, acc)

\* a dedup that forgets seen_ids.add(article_id)
RECURSIVE DedupLoopNoAdd(_, _, _)
DedupLoopNoAdd(items, i, acc) ==
    IF i > Len(items) THEN acc
    ELSE IF Truthy(items[i].article_id)
         THEN DedupLoopNoAdd(items, i + 1, Append(acc, items[i]))
         ELSE DedupLoopNoAdd(items, i + 1, acc)

_remove_duplicates_no_add(items) == DedupLoopNoAdd(items, 1, <<>>)

_remove_duplicates(items) == DedupLoop(items, 1, {}, <<>>)

\* `x < threshold` for an int threshold: a str operand raises TypeError
LtRaises(x) == x.t # "int"

\* the loop body without the pushed-id test
FilterItemNoPushed(item, pushed) ==
    IF LtRaises(item.voted) THEN "raise"
    ELSE IF item.voted.v < min_vote_threshold THEN "skip"
    ELSE IF LtRaises(item.comments) THEN "raise"
    ELSE IF item.comments.v < min_comment_threshold THEN "skip"
    ELSE IF flash_sale_pattern_search(item.title) THEN "skip"
    ELSE "keep"

\* the loop body with <= for < in both threshold tests
FilterItemStrict(item, pushed) ==
    IF item.article_id \in pushed THEN "skip"
    ELSE IF LtRaises(item.voted) THEN "raise"
    ELSE IF item.voted.v <= min_vote_threshold THEN "skip"
    ELSE IF LtRaises(item.comments) THEN "raise"
    ELSE IF item.comments.v <= min_comment_threshold THEN "skip"
    ELSE IF flash_sale_pattern_search(item.title) THEN "skip"
    ELSE "keep"

\* one pass of the loop body of _filter_items: "skip" is a continue,
\* "keep" the append, "raise" a TypeError leaving the function
FilterItem(item, pushed) ==
    IF item.article_id \in pushed THEN "skip"
    ELSE IF LtRaises(item.voted) THEN "raise"
    ELSE IF item.voted.v < min_vote_threshold THEN "skip"
    ELSE IF LtRaises(item.comments) THEN "raise"
    ELSE IF item.comments.v < min_comment_threshold THEN "skip"
    ELSE IF flash_sale_pattern_search(item.title) THEN "skip"
    ELSE "keep"

RECURSIVE FilterLoop(_, _, _, _)
FilterLoop(items, pushed, i, acc) ==
    IF i > Len(items) THEN [raised |-> FALSE, items |-> acc]
    ELSE LET d == FilterItem(items[i], pushed)
         IN  IF d = "raise" THEN [raised |-> TRUE, items |-> <<>>]
             ELSE IF d = "keep"
                  THEN FilterLoop(items, pushed, i + 1, Append(acc, items[i]))
                  ELSE FilterLoop(items, pushed, i + 1, acc)

_filter_items(items, pushed) == FilterLoop(items, pushed, 1, <<>>)

\* key=lambda x: (x.get('voted', 0), x.get('comments', 0)), tuples compared
\* lexicographically
KeyGt(a, b) ==
    \/ a.voted.v > b.voted.v
    \/ a.voted.v = b.voted.v /\ a.comments.v > b.comments.v

\* an insertion that puts an item in front of the items of equal key
RECURSIVE InsertSortedUnstable(_, _)
InsertSortedUnstable(sorted, item) ==
    IF sorted = <<>> THEN <<item>>
    ELSE IF ~KeyGt(Head(sorted), item) THEN <<item>> \o sorted
    ELSE <<Head(sorted)>> \o InsertSortedUnstable(Tail(sorted), item)

\* sorted(..., reverse=True) is stable: an item goes behind every item whose
\* key is not smaller than its own
RECURSIVE InsertSorted(_, _)
InsertSorted(sorted, item) ==
    IF sorted = <<>> THEN <<item>>
    ELSE IF KeyGt(item, Head(sorted)) THEN <<item>> \o sorted
    ELSE <<Head(sorted)>> \o InsertSorted(Tail(sorted), item)

RECURSIVE SortLoop(_, _, _)
SortLoop(items, i, acc) ==
    IF i > Len(items) THEN acc
    ELSE SortLoop(items, i + 1, InsertSorted(acc, items[i]))

_sort_items(items) == SortLoop(items, 1, <<>>)

\* process_data: dedup, filter, sort; a TypeError of the filter propagates
process_data(items, pushed) ==
    LET u == _remove_duplicates(items)
        f == _filter_items(u, pushed)
    IN  [raised |-> f.raised,
         unique |-> u,
         kept   |-> f.items,
         sorted |-> IF f.raised THEN <<>> ELSE _sort_items(f.items)]

\* set_thresholds(min_vote, min_comment): None leaves a threshold alone
set_thresholds(min_vote, min_comment) ==
    /\ min_vote_threshold' =
           IF min_vote # NoneV THEN min_vote.v ELSE min_vote_threshold
    /\ min_comment_threshold' =
           IF min_comment # NoneV THEN min_comment.v ELSE min_comment_threshold

\* crawl_zdm_data not called
CrawlIdle ==
    /\ cpc = "idle"
    /\ url_index = 1
    /\ all_items = <<>>
    /\ crawl_log = <<>>

\* no extraction function applied
ExtractIdle ==
    /\ epc = "idle"
    /\ html_content = <<>>
    /\ html_items = <<>>
    /\ number_arg = NoneV
    /\ number_ret = NoneV
    /\ goods_in = <<>>
    /\ goods_out = <<>>

\* no connect() called
NoConnect ==
    [ret |-> "none", setup |-> FALSE, copy |-> "none", rows |-> 0,
     after_failure |-> FALSE]

\* a DatabaseUtil not connected, beside a new store file
SchemaIdle ==
    /\ _conn = "None"
    /\ zdm = "absent"
    /\ zdm_rows = 0
    /\ zdm_old = FALSE
    /\ zdm_old_rows = 0
    /\ last_connect = NoConnect

\* the cookie state after CrawlerService.__init__, with no side file
NoCookieOp ==
    [op |-> "none", refreshed |-> FALSE, read |-> FALSE, wrote |-> FALSE,
     ret |-> "None", held |-> "None", age |-> 0, last |-> 0, file |-> "none",
     file_same |-> TRUE, last_same |-> TRUE, made |-> 0, cached |-> "missing",
     cached_made |-> 0, removed |-> FALSE, prev |-> "none"]

CookieIdle ==
    /\ cookies = "None"
    /\ cookies_made = 0
    /\ cookies_last_updated = IntV(0)
    /\ cookies_file = [kind |-> "absent", cookies |-> "missing",
                       timestamp |-> NoneV, has_ts |-> FALSE, made |-> 0]
    /\ clock = StartClock
    /\ is_ci = FALSE
    /\ cookie_op = NoCookieOp
    /\ ticks = 0

\* the service after __init__, before any call
FetchIdle ==
    /\ fpc = "loop"
    /\ retry_count = 0
    /\ fetch_items = <<>>
    /\ wait_time = 0
    /\ fetch_log = <<>>

ProcIdle ==
    /\ min_vote_threshold = DefaultMinVote
    /\ min_comment_threshold = DefaultMinComment
    /\ raw_items = <<>>
    /\ pushed_ids = {}
    /\ unique_items = <<>>
    /\ kept_items = <<>>
    /\ sorted_items = <<>>
    /\ ppc = "start"

----------------------------------------------------------------------------
(* DatabaseUtil *)

\* str.join and s[:-1]
RECURSIVE Join(_, _)
Join(sep, parts) ==
    IF parts = <<>> THEN <<>>
    ELSE IF Len(parts) = 1 THEN parts[1]
    ELSE parts[1] \o sep \o Join(sep, Tail(parts))

DropLast(s) == IF s = <<>> THEN <<>> ELSE SubSeq(s, 1, Len(s) - 1)

\* the text between the parentheses of  article_id IN (...):
\* "?,".join(["?"] * len(article_ids))[:-1]
InListSql(article_ids) ==
    DropLast(Join(<<"?", ",">>, [k \in 1..Len(article_ids) |-> <<"?">>]))

\* SQLite parses an IN list that is empty or is  ? , ? , ... , ?
ParsesAsInList(sql) ==
    \/ sql = <<>>
    \/ /\ Len(sql) % 2 = 1
       /\ \A k \in 1..Len(sql) : sql[k] = (IF k % 2 = 1 THEN "?" ELSE ",")

ParamCount(sql) == Cardinality({k \in 1..Len(sql) : sql[k] = "?"})

\* conn.execute(sql, params) raises on a syntax error (OperationalError) and
\* on a number of bindings other than the number of ? (ProgrammingError)
ExecuteRaises(sql, params) ==
    ~ParsesAsInList(sql) \/ ParamCount(sql) # Len(params)

\* the column values of INSERT OR REPLACE for an item dict
Row(data) ==
    [article_id |-> data.article_id, title |-> data.title, url |-> data.url,
     article_pic_url |-> data.pic_url, price |-> data.price,
     voted |-> data.voted, comments |-> data.comments,
     article_mall |-> data.article_mall, article_time |-> data.article_time,
     pushed |-> IF data.pushed THEN 1 ELSE 0]

\* dict(zip(columns, row)) with article_pic_url renamed and pushed as a bool
RowDict(row) ==
    [article_id |-> row.article_id, title |-> row.title, url |-> row.url,
     pic_url |-> row.article_pic_url, price |-> row.price,
     voted |-> row.voted, comments |-> row.comments,
     article_mall |-> row.article_mall, article_time |-> row.article_time,
     pushed |-> row.pushed # 0]

\* INSERT OR IGNORE written for INSERT OR REPLACE
InsertOrIgnore(table, data) ==
    [id \in DOMAIN table \cup {data.article_id} |->
        IF id \in DOMAIN table THEN table[id] ELSE Row(data)]

\* INSERT OR REPLACE on the primary key article_id
InsertOrReplace(table, data) ==
    [id \in DOMAIN table \cup {data.article_id} |->
        IF id = data.article_id THEN Row(data) ELSE table[id]]

RECURSIVE InsertAll(_, _, _)
InsertAll(table, data_list, i) ==
    IF i > Len(data_list) THEN table
    ELSE InsertAll(InsertOrReplace(table, data_list[i]), data_list, i + 1)

\* SELECT * FROM ZDM WHERE pushed = 0
SelectUnpushed(table) ==
    {RowDict(table[id]) : id \in {x \in DOMAIN table : table[x].pushed = 0}}

\* UPDATE ZDM SET pushed = ? WHERE article_id IN (...)
UpdatePushed(table, article_ids, pushed_int) ==
    [id \in DOMAIN table |->
        IF \E k \in 1..Len(article_ids) : article_ids[k] = id
        THEN [table[id] EXCEPT !.pushed = pushed_int]
        ELSE table[id]]

\* the operation a store call leaves in store_op
StoreOp(op, items, ids, pushed, raised, before) ==
    [op |-> op, items |-> items, ids |-> ids, pushed |-> pushed,
     raised |-> raised, before |-> before]

NoOp == StoreOp("none", <<>>, <<>>, FALSE, FALSE, <<>>)

EmptyTable == <<>>

\* connect(): opens the connection on first use; _create_tables leaves an
\* empty ZDM table in a new file and the rows of an existing one
connect ==
    /\ conn' = "open"

\* save_or_update(data)
save_or_update(data) ==
    /\ connect
    /\ db' = InsertOrReplace(db, data)
    /\ disk' = db'
    /\ store_prev' = store_op
    /\ store_op' = StoreOp("save_or_update", <<data>>, <<>>, FALSE, FALSE, db)
    /\ UNCHANGED unpushed

\* get_unpushed_records()
get_unpushed_records ==
    /\ connect
    /\ unpushed' = SelectUnpushed(db)
    /\ store_prev' = store_op
    /\ store_op' = StoreOp("get_unpushed_records", <<>>, <<>>, FALSE, FALSE, db)
    /\ UNCHANGED <<db, disk>>

\* update_pushed_status(article_ids, pushed): the UPDATE raises before any
\* row is written when its text does not execute with the given bindings
update_pushed_status(article_ids, pushed) ==
    /\ connect
    /\ LET raises == ExecuteRaises(InListSql(article_ids), article_ids)
       IN  /\ db' = IF raises THEN db
                    ELSE UpdatePushed(db, article_ids, IF pushed THEN 1 ELSE 0)
           /\ disk' = db'
           /\ store_prev' = store_op
           /\ store_op' = StoreOp("update_pushed_status", <<>>, article_ids,
                                  pushed, raises, db)
    /\ UNCHANGED unpushed

\* BatchResult with the rollback left out: the rows written before the
\* failing one stay in the connection's view
BatchResultNoRollback(table, committed, data_list, fail_at) ==
    IF fail_at = 0
    THEN [db |-> InsertAll(table, data_list, 1),
          disk |-> InsertAll(table, data_list, 1), raised |-> FALSE]
    ELSE [db |-> InsertAll(table, SubSeq(data_list, 1, fail_at - 1), 1),
          disk |-> committed, raised |-> TRUE]

\* the loop of save_or_update_batch on the connection's view (table) and the
\* committed rows: with fail_at = 0 every execute succeeds and the commit
\* follows; otherwise the execute of item fail_at raises after the items
\* before it were written, and the handler rolls back and raises again
BatchResult(table, committed, data_list, fail_at) ==
    IF fail_at = 0
    THEN [db |-> InsertAll(table, data_list, 1),
          disk |-> InsertAll(table, data_list, 1), raised |-> FALSE]
    ELSE [db |-> committed, disk |-> committed, raised |-> TRUE]

\* save_or_update_batch(data_list); fail_at is the place of the item whose
\* execute raises (a value SQLite cannot bind, a database error), 0 for none
save_or_update_batch(data_list, fail_at) ==
    /\ connect
    /\ LET r == BatchResult(db, disk, data_list, fail_at)
       IN  /\ db' = r.db
           /\ disk' = r.disk
           /\ store_prev' = store_op
           /\ store_op' = StoreOp("save_or_update_batch", data_list, <<>>, FALSE,
                                  r.raised, db)
    /\ UNCHANGED unpushed

WindowDays == 30

Digits == <<"0", "1", "2", "3", "4", "5", "6", "7", "8", "9">>

\* strftime of a date: fixed width, most significant digit first, zero
\* padded.  The model's dates are day numbers below 100, written in two digits
DateStr(day) == <<Digits[((day \div 10) % 10) + 1], Digits[(day % 10) + 1]>>

\* the byte order of the characters of a timestamp
CharCode(c) == CHOOSE k \in 1..11 : (<<" ">> \o Digits)[k] = c

\* SqlGe with > written for >=
RECURSIVE SqlGt(_, _)
SqlGt(a, b) ==
    IF a = <<>> THEN FALSE
    ELSE IF b = <<>> THEN TRUE
    ELSE IF CharCode(Head(a)) > CharCode(Head(b)) THEN TRUE
    ELSE IF CharCode(Head(a)) < CharCode(Head(b)) THEN FALSE
    ELSE SqlGt(Tail(a), Tail(b))

\* a >= b on TEXT values under SQLite's BINARY collation
RECURSIVE SqlGe(_, _)
SqlGe(a, b) ==
    IF b = <<>> THEN TRUE
    ELSE IF a = <<>> THEN FALSE
    ELSE IF CharCode(Head(a)) > CharCode(Head(b)) THEN TRUE
    ELSE IF CharCode(Head(a)) < CharCode(Head(b)) THEN FALSE
    ELSE SqlGe(Tail(a), Tail(b))

\* (datetime.now() - timedelta(days=30)).strftime('%Y-%m-%d')
one_month_ago(today) == DateStr(today - WindowDays)

\* the article_time of a row written from an item without one: NULL
NullTime == <<"NULL">>

\* SELECT article_id FROM ZDM WHERE pushed = 1 AND article_time >= ?
\* (a comparison with NULL is not true)
get_pushed_ids(table, today) ==
    {id \in DOMAIN table :
        /\ table[id].pushed = 1
        /\ table[id].article_time # NullTime
        /\ SqlGe(table[id].article_time, one_month_ago(today))}

\* disconnect(): closing the connection drops what was not committed
disconnect ==
    /\ conn' = "closed"
    /\ db' = disk
    /\ UNCHANGED disk

StoreIdle ==
    /\ conn = "closed"
    /\ db = EmptyTable
    /\ disk = EmptyTable
    /\ store_op = NoOp
    /\ store_prev = NoOp
    /\ unpushed = {}

----------------------------------------------------------------------------
(* The store operations on bounded inputs *)

StoreIds == {"a", "b"}

StoreItems ==
    {[MkItem(id, PlainTitle, IntV(v), IntV(5), NoTime) EXCEPT !.pushed = p] :
        id \in StoreIds, v \in {10, 20}, p \in BOOLEAN}

StoreInit == StoreIdle

StoreUpsert ==
    /\ \E data \in StoreItems : save_or_update(data)
    /\ UNCHANGED <<procVars, mainVars, fetchVars, cookieVars, crawlVars, extractVars, schemaVars>>

StoreGetUnpushed ==
    /\ get_unpushed_records
    /\ UNCHANGED <<procVars, mainVars, fetchVars, cookieVars, crawlVars, extractVars, schemaVars>>

StoreSetPushed ==
    /\ \E article_ids \in SeqsUpTo(StoreIds, MaxIds), pushed \in BOOLEAN :
           update_pushed_status(article_ids, pushed)
    /\ UNCHANGED <<procVars, mainVars, fetchVars, cookieVars, crawlVars, extractVars, schemaVars>>

NextStore == StoreUpsert \/ StoreGetUnpushed \/ StoreSetPushed

----------------------------------------------------------------------------
(* Upserts and the pushed-id snapshot on bounded inputs *)

\* article_time values around the cutoff of the day StartDay: a timestamp of
\* the day itself, the cutoff date, the day before the cutoff
RecentTime == DateStr(StartDay) \o <<" ", "9">>
EdgeTime == DateStr(StartDay - WindowDays)
OldTime == DateStr(StartDay - WindowDays - 1) \o <<" ", "9">>

TableItem(id, v, time, p) ==
    [MkItem(id, PlainTitle, IntV(v), IntV(5), time) EXCEPT !.pushed = p]

TableItems ==
    {TableItem("a", 10, t, p) :
        t \in {RecentTime, EdgeTime, OldTime, NoTime, NullTime}, p \in BOOLEAN}
    \cup {TableItem("b", v, RecentTime, TRUE) : v \in {10, 20}}

BatchLists ==
    {<<>>,
     <<TableItem("a", 10, RecentTime, FALSE), TableItem("b", 10, RecentTime, TRUE)>>,
     <<TableItem("b", 10, RecentTime, TRUE), TableItem("b", 20, RecentTime, TRUE)>>,
     <<TableItem("b", 20, RecentTime, TRUE), TableItem("a", 10, OldTime, TRUE),
       TableItem("a", 10, EdgeTime, TRUE)>>}

TableUpsert ==
    /\ \E data \in TableItems : save_or_update(data)
    /\ UNCHANGED <<procVars, mainVars, fetchVars, cookieVars, crawlVars, extractVars, schemaVars>>

TableUpsertBatch ==
    /\ \E data_list \in BatchLists :
           \E fail_at \in 0..Len(data_list) :
               save_or_update_batch(data_list, fail_at)
    /\ UNCHANGED <<procVars, mainVars, fetchVars, cookieVars, crawlVars, extractVars, schemaVars>>

\* pushed_ids = await db_util.get_pushed_ids() on the day StartDay
TableGetPushedIds ==
    /\ connect
    /\ pushed_ids' = get_pushed_ids(db, StartDay)
    /\ store_prev' = store_op
    /\ store_op' = StoreOp("get_pushed_ids", <<>>, <<>>, FALSE, FALSE, db)
    /\ UNCHANGED <<db, disk, unpushed>>
    /\ UNCHANGED <<min_vote_threshold, min_comment_threshold, raw_items,
                   unique_items, kept_items, sorted_items, ppc>>
    /\ UNCHANGED <<mainVars, fetchVars, cookieVars, crawlVars, extractVars, schemaVars>>

NextTable == TableUpsert \/ TableUpsertBatch \/ TableGetPushedIds

----------------------------------------------------------------------------
(* CrawlerService: the session cookies *)

\* self.cookies is "None", "empty" ({}), "default" (the two default entries)
\* or "cached" (a non-empty mapping read from the side file).  The side file
\* is absent, unreadable (open raises), malformed (json.load raises), notdict
\* (JSON that is not an object) or a JSON object (kind "dict") whose cookies
\* field is missing, null, empty or cached and whose timestamp is missing
\* (NoneV with has_ts FALSE), null (NoneV) or a number (IntV)

cookies_expire_time == 3600

\* not self.cookies
NoCookies(c) == c \in {"None", "empty"}

FileDict(c, ts, has_ts) ==
    [kind |-> "dict", cookies |-> c, timestamp |-> ts, has_ts |-> has_ts,
     made |-> 0]

FileOther(kind) ==
    [kind |-> kind, cookies |-> "missing", timestamp |-> NoneV, has_ts |-> FALSE,
     made |-> 0]

\* cookie_data.get('cookies', {})
FileCookies(f) ==
    IF f.cookies = "missing" THEN "empty"
    ELSE IF f.cookies = "null" THEN "None"
    ELSE f.cookies

\* cookie_data.get('timestamp', 0)
FileTimestamp(f) == IF f.has_ts THEN f.timestamp ELSE IntV(0)

\* what the write of the side file leaves: the new content, the old file
\* (open raised) or a truncated file (the dump raised)
WriteOutcomes == {"written", "refused", "truncated"}

AfterWrite(f, c, made, now_s, outcome) ==
    IF outcome = "written"
    THEN [FileDict(c, IntV(now_s), TRUE) EXCEPT !.made = made]
    ELSE IF outcome = "truncated" THEN FileOther("malformed")
    ELSE f

CookieState(c, made, last, f, read, wrote) ==
    [cookies |-> c, made |-> made, last |-> last, file |-> f, read |-> read,
     wrote |-> wrote]

\* CiCookies with the default cookies made as outside CI
CiCookiesDefault(c) == IF NoCookies(c) THEN "default" ELSE c

\* the CI branch: if not self.cookies: self.cookies = {}
CiCookies(c) == IF NoCookies(c) THEN "empty" ELSE c

\* the default cookies hold the second of their making:
\* 'device_id': str(int(time.time())), 'session': f'session_{int(time.time())}'
DefaultMade(c, made, now_s) == IF NoCookies(c) THEN now_s ELSE made

\* _update_cookies() on the state (c, made, last, f) at time now_s: the CI
\* branch, the load from the side file, then the default cookies and the save
_update_cookies(c, made, last, f, now_s, ci, outcome) ==
    IF ci
    THEN CookieState(CiCookies(c), IF NoCookies(c) THEN 0 ELSE made,
                     IntV(now_s), f, FALSE, FALSE)
    ELSE LET exists == f.kind # "absent"
             loads == f.kind = "dict"
             c1 == IF loads THEN FileCookies(f) ELSE c
             m1 == IF loads THEN f.made ELSE made
             ts == FileTimestamp(f)
             fresh == loads /\ ts # NoneV
                            /\ now_s - ts.v < cookies_expire_time
             c2 == IF NoCookies(c1) THEN "default" ELSE c1
             m2 == DefaultMade(c1, m1, now_s)
         IN  IF fresh THEN CookieState(c1, m1, ts, f, TRUE, FALSE)
             ELSE CookieState(c2, m2, IntV(now_s),
                              AfterWrite(f, c2, m2, now_s, outcome),
                              exists, TRUE)

\* NeedsUpdate with >= written for >
NeedsUpdateAtTtl(c, last, now_s) ==
    NoCookies(c) \/ now_s - last.v >= cookies_expire_time

\* the test of _get_or_update_cookies
NeedsUpdate(c, last, now_s) ==
    NoCookies(c) \/ now_s - last.v > cookies_expire_time

\* _get_or_update_cookies(): the state it leaves; it returns self.cookies
_get_or_update_cookies(c, made, last, f, now_s, ci, outcome) ==
    IF NeedsUpdate(c, last, now_s)
    THEN _update_cookies(c, made, last, f, now_s, ci, outcome)
    ELSE CookieState(c, made, last, f, FALSE, FALSE)

CookieOp(op, refreshed, st) ==
    [op |-> op, refreshed |-> refreshed, read |-> st.read, wrote |-> st.wrote,
     ret |-> st.cookies, held |-> cookies, age |-> clock - cookies_last_updated.v,
     last |-> cookies_last_updated.v, file |-> cookies_file.kind,
     file_same |-> st.file = cookies_file,
     last_same |-> st.last = cookies_last_updated,
     made |-> st.made, cached |-> "missing", cached_made |-> 0,
     removed |-> FALSE, prev |-> cookie_op.op]

\* the cookie variables after a cookie operation that left the state st
SetCookies(op, refreshed, st) ==
    /\ cookies' = st.cookies
    /\ cookies_made' = st.made
    /\ cookies_last_updated' = st.last
    /\ cookies_file' = st.file
    /\ cookie_op' = CookieOp(op, refreshed, st)

\* clear_cookies with the side file left in place
clear_cookiesKeepsFile(removed) ==
    /\ cookies' = "None"
    /\ cookies_made' = 0
    /\ cookies_last_updated' = IntV(0)
    /\ cookies_file' = cookies_file
    /\ cookie_op' = [NoCookieOp EXCEPT !.op = "clear_cookies",
                                       !.held = cookies,
                                       !.made = cookies_made,
                                       !.file = cookies_file.kind,
                                       !.cached = cookies_file.cookies,
                                       !.cached_made = cookies_file.made,
                                       !.removed = removed]

\* clear_cookies(): the side file is removed when it exists; a failing
\* os.remove is logged.  cookie_op keeps what was held and what the side file
\* held before the call
clear_cookies(removed) ==
    /\ cookies' = "None"
    /\ cookies_made' = 0
    /\ cookies_last_updated' = IntV(0)
    /\ cookies_file' = IF removed THEN FileOther("absent") ELSE cookies_file
    /\ cookie_op' = [NoCookieOp EXCEPT !.op = "clear_cookies",
                                       !.held = cookies,
                                       !.made = cookies_made,
                                       !.file = cookies_file.kind,
                                       !.cached = cookies_file.cookies,
                                       !.cached_made = cookies_file.made,
                                       !.removed = removed]

----------------------------------------------------------------------------
(* main() *)

\* ConfigManager.validate_config() for the two flags and the completeness of
\* the two channel configurations
validate_config(email, wechat, has_valid_email, has_valid_wechat) ==
    IF email /\ ~has_valid_email /\ ~wechat THEN FALSE
    ELSE IF wechat /\ ~has_valid_wechat /\ ~email THEN FALSE
    ELSE IF email /\ wechat /\ ~has_valid_email /\ ~has_valid_wechat THEN FALSE
    ELSE TRUE

\* the channels push_notifications dispatches, in its order
Tasks == (IF use_email THEN <<"email">> ELSE <<>>)
         \o (IF use_wechat THEN <<"wechat">> ELSE <<>>)

\* any(...) written for all(...)
any_success(res) ==
    IF DOMAIN res = {} THEN FALSE ELSE \E c \in DOMAIN res : res[c]

\* all(results.values()) if results else False
all_success(res) ==
    IF DOMAIN res = {} THEN FALSE ELSE \A c \in DOMAIN res : res[c]

ArticleIds(items) == [k \in 1..Len(items) |-> items[k].article_id]

MainIdle ==
    /\ pc = "start"
    /\ use_email = TRUE
    /\ use_wechat = FALSE
    /\ usable_channel = FALSE
    /\ filtered_items = <<>>
    /\ results = <<>>
    /\ main_ret = "none"
    /\ run = 1
    /\ now = StartDay
    /\ crawls = 0
    /\ update_called = FALSE
    /\ notified = {}
    /\ delivered = {}

\* the process starts with the flags of its environment
MainInit ==
    /\ pc = "start"
    /\ use_email \in BOOLEAN
    /\ use_wechat \in BOOLEAN
    /\ usable_channel = FALSE
    /\ filtered_items = <<>>
    /\ results = <<>>
    /\ main_ret = "none"
    /\ run = 1
    /\ now = StartDay
    /\ crawls = 0
    /\ update_called = FALSE
    /\ notified = {}
    /\ delivered = {}

\* what the upstream can make crawl_zdm_data return

CrawlItems ==
    {MkItem("a", PlainTitle, IntV(10), IntV(5), RecentTime),
     MkItem("a", PlainTitle, IntV(20), IntV(5), EdgeTime),
     MkItem("b", PlainTitle, IntV(10), IntV(8), NoTime),
     MkItem("c", PlainTitle, IntV(9), IntV(5), RecentTime),
     MkItem("f", PlainTitle, StrV(15), StrV(7), RecentTime)}

CrawlResults == SeqsUpTo(CrawlItems, MaxCrawlLen)

\* main.py 33-44: the configuration is read; an invalid one returns False
\* before anything else
Validate ==
    /\ pc = "start"
    /\ \E email_complete, wx_complete \in BOOLEAN :
           /\ usable_channel' = (\/ use_email /\ email_complete
                                 \/ use_wechat /\ wx_complete)
           /\ IF validate_config(use_email, use_wechat, email_complete, wx_complete)
              THEN pc' = "init" /\ UNCHANGED main_ret
              ELSE pc' = "exited" /\ main_ret' = "False"
    /\ UNCHANGED <<use_email, use_wechat, filtered_items, results, run, now,
                   crawls, update_called, notified, delivered>>
    /\ UNCHANGED <<procVars, storeVars>>
    /\ UNCHANGED <<fetchVars, cookieVars, crawlVars, extractVars, schemaVars>>

\* main.py 50-63: the services are built; when CrawlerService() raises, the
\* store is disconnected and main returns False
InitServices ==
    /\ pc = "init"
    /\ \E built \in BOOLEAN :
           IF built
           THEN /\ pc' = "pushed_ids"
                /\ cookies' = "None"
                /\ cookies_made' = 0
                /\ cookies_last_updated' = IntV(0)
                /\ UNCHANGED <<main_ret, conn, db, disk>>
           ELSE /\ disconnect
                /\ pc' = "exited"
                /\ main_ret' = "False"
                /\ UNCHANGED <<cookies, cookies_made, cookies_last_updated>>
    /\ UNCHANGED <<store_op, store_prev, unpushed>>
    /\ UNCHANGED <<use_email, use_wechat, usable_channel,
                   filtered_items, results, run, now, crawls, update_called,
                   notified, delivered>>
    /\ UNCHANGED procVars
    /\ UNCHANGED <<cookies_file, clock, is_ci, cookie_op, ticks>>
    /\ UNCHANGED <<fetchVars, crawlVars, extractVars, schemaVars>>

\* what the first use of the store can do: answer, fail to open the file
\* (aiosqlite.connect raises), or fail with the connection open
StoreOutcomes == {"ok", "connect_failed", "query_failed"}

\* main.py 92-96, 172-174: pushed_ids = await db_util.get_pushed_ids(); an
\* exception of it reaches the outer handler (return False)
GetPushedIds ==
    /\ pc = "pushed_ids"
    /\ \E outcome \in StoreOutcomes :
           /\ IF outcome = "connect_failed" THEN UNCHANGED conn ELSE connect
           /\ IF outcome = "ok"
              THEN /\ pushed_ids' = get_pushed_ids(db, now)
                   /\ pc' = "crawl"
                   /\ UNCHANGED main_ret
              ELSE /\ pc' = "finally"
                   /\ main_ret' = "False"
                   /\ UNCHANGED pushed_ids
    /\ UNCHANGED <<db, disk, store_op, store_prev, unpushed>>
    /\ UNCHANGED <<min_vote_threshold, min_comment_threshold, raw_items,
                   unique_items, kept_items, sorted_items, ppc>>
    /\ UNCHANGED <<use_email, use_wechat, usable_channel,
                   filtered_items, results, run, now, crawls, update_called,
                   notified, delivered>>
    /\ UNCHANGED <<fetchVars, cookieVars, crawlVars, extractVars, schemaVars>>

\* the return value without data, False written for True
NoDataReturnFalse == "False"

\* main.py 118-121: without data the run ends with  return True
NoDataReturn == "True"

\* what the write of the side file does during a crawl of main()
CrawlWrites == {"written"}

\* AfterEmptyCrawl with a retry after the second empty crawl as well
AfterEmptyCrawlTwice(n) == IF n <= 1 THEN "clear" ELSE "finally"

\* main.py 108-121 after an empty crawl: the first one leads to the retry,
\* the second one to the end of the run
AfterEmptyCrawl(n) == IF n = 0 THEN "clear" ELSE "finally"

\* main.py 100-121: one call of crawl_zdm_data(), which starts with
\* _get_or_update_cookies(); its exception is logged and leaves raw_items
\* empty.  An empty first result leads to the retry, an empty second one
\* ends the run with True
Crawl ==
    /\ pc = "crawl"
    /\ \E items \in CrawlResults :
           /\ raw_items' = items
           /\ crawls' = crawls + 1
           /\ IF items # <<>> THEN pc' = "process" /\ UNCHANGED main_ret
              ELSE IF AfterEmptyCrawl(crawls) = "clear"
              THEN pc' = "clear" /\ UNCHANGED main_ret
              ELSE pc' = "finally" /\ main_ret' = NoDataReturn
    /\ \E outcome \in CrawlWrites :
           SetCookies("crawl_zdm_data",
                      NeedsUpdate(cookies, cookies_last_updated, clock),
                      _get_or_update_cookies(cookies, cookies_made, cookies_last_updated,
                                             cookies_file, clock, is_ci, outcome))
    /\ UNCHANGED <<min_vote_threshold, min_comment_threshold, pushed_ids,
                   unique_items, kept_items, sorted_items, ppc>>
    /\ UNCHANGED <<use_email, use_wechat, usable_channel,
                   filtered_items, results, run, now,
                   update_called, notified, delivered>>
    /\ UNCHANGED storeVars
    /\ UNCHANGED <<clock, is_ci, ticks>>
    /\ UNCHANGED <<fetchVars, crawlVars, extractVars, schemaVars>>

\* main.py 108-112: crawler_service.clear_cookies() before the second crawl
ClearRetry ==
    /\ pc = "clear"
    /\ \E removed \in (IF cookies_file.kind = "absent" THEN {FALSE} ELSE BOOLEAN) :
           clear_cookies(removed)
    /\ pc' = "crawl"
    /\ UNCHANGED <<use_email, use_wechat, usable_channel, filtered_items, results,
                   main_ret, run, now, crawls, update_called, notified, delivered>>
    /\ UNCHANGED <<procVars, storeVars>>
    /\ UNCHANGED <<clock, is_ci, ticks>>
    /\ UNCHANGED <<fetchVars, crawlVars, extractVars, schemaVars>>

\* main.py 125-129, 163-167: process_data; an exception of it reaches the
\* outer handler (return False); an empty result ends the run with True
Process ==
    /\ pc = "process"
    /\ LET r == process_data(raw_items, pushed_ids)
       IN  IF r.raised
           THEN /\ pc' = "finally"
                /\ main_ret' = "False"
                /\ UNCHANGED filtered_items
           ELSE /\ filtered_items' = r.sorted
                /\ IF r.sorted # <<>>
                   THEN pc' = "save" /\ UNCHANGED main_ret
                   ELSE pc' = "finally" /\ main_ret' = "True"
    /\ UNCHANGED <<use_email, use_wechat, usable_channel,
                   results, run, now, crawls,
                   update_called, notified, delivered>>
    /\ UNCHANGED <<procVars, storeVars>>
    /\ UNCHANGED <<fetchVars, cookieVars, crawlVars, extractVars, schemaVars>>

\* main.py 129-134: save_or_update_batch(filtered_items); an exception of it
\* is logged and the run goes on to the notification
Save ==
    /\ pc = "save"
    /\ \E fail_at \in 0..Len(filtered_items) :
           save_or_update_batch(filtered_items, fail_at)
    /\ pc' = "notify"
    /\ UNCHANGED <<use_email, use_wechat, usable_channel,
                   filtered_items, results, main_ret,
                   run, now, crawls, update_called, notified, delivered>>
    /\ UNCHANGED procVars
    /\ UNCHANGED <<fetchVars, cookieVars, crawlVars, extractVars, schemaVars>>

\* notification_service.py 177-179: the next task of push_notifications is
\* awaited; the channel reports success or failure
Dispatch ==
    /\ pc = "notify"
    /\ Cardinality(DOMAIN results) < Len(Tasks)
    /\ LET channel == Tasks[Cardinality(DOMAIN results) + 1]
       IN  \E ok \in BOOLEAN :
               results' = [c \in DOMAIN results \cup {channel} |->
                              IF c = channel THEN ok ELSE results[c]]
    /\ notified' = notified \cup {filtered_items[k].article_id :
                                     k \in 1..Len(filtered_items)}
    /\ UNCHANGED <<pc, use_email, use_wechat, usable_channel,
                   filtered_items, main_ret, run,
                   now, crawls, update_called, delivered>>
    /\ UNCHANGED <<procVars, storeVars>>
    /\ UNCHANGED <<fetchVars, cookieVars, crawlVars, extractVars, schemaVars>>

\* main.py 146-167: with every result in, the push state is updated when all
\* channels succeeded; an exception of the update is logged and swallowed
CheckResults ==
    /\ pc = "notify"
    /\ Cardinality(DOMAIN results) = Len(Tasks)
    /\ IF all_success(results)
       THEN /\ update_pushed_status(ArticleIds(filtered_items), TRUE)
            /\ update_called' = TRUE
       ELSE UNCHANGED <<storeVars, update_called>>
    /\ pc' = "finally"
    /\ main_ret' = "True"
    /\ UNCHANGED <<use_email, use_wechat, usable_channel,
                   filtered_items, results, run, now,
                   crawls, notified, delivered>>
    /\ UNCHANGED procVars
    /\ UNCHANGED <<fetchVars, cookieVars, crawlVars, extractVars, schemaVars>>

\* the finally block without the disconnect
ReleaseStoreSkipped == UNCHANGED <<conn, db, disk>>

\* main.py 177-178: await db_util.disconnect()
ReleaseStore == disconnect

\* main.py 175-180: finally: await db_util.disconnect()
Finally ==
    /\ pc = "finally"
    /\ ReleaseStore
    /\ pc' = "exited"
    /\ UNCHANGED <<store_op, store_prev, unpushed>>
    /\ UNCHANGED <<use_email, use_wechat, usable_channel,
                   filtered_items, results, main_ret,
                   run, now, crawls, update_called, notified, delivered>>
    /\ UNCHANGED procVars
    /\ UNCHANGED <<fetchVars, cookieVars, crawlVars, extractVars, schemaVars>>

\* the process exits; the scheduler starts the next run, some days later,
\* against the same store file
NextRun ==
    /\ pc = "exited"
    /\ run < MaxRuns
    /\ run' = run + 1
    /\ \E days \in 0..MaxAdvance : now' = now + days
    /\ delivered' = delivered \cup
           (IF all_success(results)
            THEN {filtered_items[k].article_id : k \in 1..Len(filtered_items)}
            ELSE {})
    /\ pc' = "start"
    /\ filtered_items' = <<>>
    /\ results' = <<>>
    /\ main_ret' = "none"
    /\ crawls' = 0
    /\ update_called' = FALSE
    /\ notified' = {}
    /\ raw_items' = <<>>
    /\ pushed_ids' = {}
    /\ store_op' = NoOp
    /\ store_prev' = NoOp
    /\ usable_channel' = FALSE
    /\ UNCHANGED <<use_email, use_wechat>>
    /\ UNCHANGED <<min_vote_threshold, min_comment_threshold, unique_items,
                   kept_items, sorted_items, ppc>>
    /\ UNCHANGED <<conn, db, disk, unpushed>>
    /\ UNCHANGED <<fetchVars, cookieVars, crawlVars, extractVars, schemaVars>>

Init ==
    MainInit /\ ProcIdle /\ StoreIdle /\ FetchIdle
    /\ CookieIdle /\ CrawlIdle /\ ExtractIdle /\ SchemaIdle

Next ==
    \/ Validate
    \/ InitServices
    \/ GetPushedIds
    \/ Crawl
    \/ ClearRetry
    \/ Process
    \/ Save
    \/ Dispatch
    \/ CheckResults
    \/ Finally
    \/ NextRun

Spec == Init /\ [][Next]_vars

----------------------------------------------------------------------------
(* CrawlerService: the structured path *)

TextV(chars) == [t |-> "text", s |-> chars]

IsSpace(c) == c = " "

\* str.strip()
RECURSIVE LStrip(_)
LStrip(s) == IF s # <<>> /\ IsSpace(Head(s)) THEN LStrip(Tail(s)) ELSE s

RECURSIVE RStrip(_)
RStrip(s) ==
    IF s # <<>> /\ IsSpace(s[Len(s)]) THEN RStrip(SubSeq(s, 1, Len(s) - 1)) ELSE s

Strip(s) == RStrip(LStrip(s))

DigitVal(c) == CHOOSE d \in 0..9 : Digits[d + 1] = c

\* int() of a string of decimal digits
RECURSIVE DigitsToInt(_)
DigitsToInt(s) ==
    IF s = <<>> THEN 0
    ELSE DigitsToInt(SubSeq(s, 1, Len(s) - 1)) * 10 + DigitVal(s[Len(s)])

\* re.sub(r'[^0-9]', '', s)
RECURSIVE OnlyDigits(_)
OnlyDigits(s) ==
    IF s = <<>> THEN <<>>
    ELSE IF IsDigit(Head(s)) THEN <<Head(s)>> \o OnlyDigits(Tail(s))
    ELSE OnlyDigits(Tail(s))

RECURSIVE Pow10(_)
Pow10(n) == IF n = 0 THEN 1 ELSE 10 * Pow10(n - 1)

NotFloat == [ok |-> FALSE, sign |-> 1, num |-> 0, den |-> 1]

\* the literal  ip [ . fp ]  with its sign: the fraction sign * num / den
\* when both parts are digits and one digit at least is there
Fraction(sign, ip, fp) ==
    IF /\ Len(ip) + Len(fp) > 0
       /\ \A k \in 1..Len(ip) : IsDigit(ip[k])
       /\ \A k \in 1..Len(fp) : IsDigit(fp[k])
    THEN [ok |-> TRUE, sign |-> sign, num |-> DigitsToInt(ip \o fp),
          den |-> Pow10(Len(fp))]
    ELSE NotFloat

\* the literal after its sign, split at its dot
Unsigned(sign, t) ==
    LET dots == {k \in 1..Len(t) : t[k] = "."}
    IN  IF dots = {} THEN Fraction(sign, t, <<>>)
        ELSE IF Cardinality(dots) > 1 THEN NotFloat
        ELSE Fraction(sign, SubSeq(t, 1, (CHOOSE k \in dots : TRUE) - 1),
                      SubSeq(t, (CHOOSE k \in dots : TRUE) + 1, Len(t)))

\* the stripped literal: an optional sign in front
Signed(t0) ==
    IF t0 # <<>> /\ Head(t0) \in {"+", "-"}
    THEN Unsigned(IF Head(t0) = "-" THEN -1 ELSE 1, Tail(t0))
    ELSE Unsigned(1, t0)

\* float(prefix) for a prefix made of digits, dots, signs, blanks and
\* letters: after the strip, the literals  [sign] digits [ . digits ]  with
\* at least one digit give the fraction sign * num / den, the others are a
\* ValueError
ParseFloat(prefix) == Signed(Strip(prefix))

\* int(f * unit) of a parsed float: the product truncated toward zero; 0
\* stands for the ValueError branch
Scale(f, unit) ==
    IF f.ok THEN f.sign * ((f.num * unit) \div f.den) ELSE 0

\* int(float(prefix) * unit).  The quotient of the exact product is the
\* truncation of the double product for the prefixes drawn in this model:
\* every prefix of up to four characters of NumberChars, and the longer ones
\* of LongNumbers, whose exact products are not integers
ScaledInt(prefix, unit) == Scale(ParseFloat(prefix), unit)

Returns(n) == [raised |-> FALSE, v |-> n]
Raises == [raised |-> TRUE, v |-> 0]

\* str_number_format(s) for a str, None or an int: what it returns, or that
\* an exception leaves it (s.strip() on a number other than 0 is an
\* AttributeError, which no handler of the function catches)
str_number_format(x) ==
    IF x = NoneV \/ x = IntV(0) THEN Returns(0)
    ELSE IF x.t = "int" THEN Raises
    ELSE IF x.s = <<>> \/ Strip(x.s) = <<>> THEN Returns(0)
    ELSE LET s == Strip(x.s)
             last == s[Len(s)]
         IN  IF last \in {"k", "K"}
             THEN Returns(ScaledInt(SubSeq(s, 1, Len(s) - 1), 1000))
             ELSE IF last \in {"w", "W"}
                  THEN Returns(ScaledInt(SubSeq(s, 1, Len(s) - 1), 10000))
             ELSE Returns(DigitsToInt(OnlyDigits(s)))

\* a value of a record of goods_list: a JSON string (TextV, for the id IdV),
\* null (NoneV), a number (IntV), or the key is absent
IdV(s) == [t |-> "id", s |-> s]
AbsentV == [t |-> "absent", v |-> 0]

\* an element of goods_list: a JSON object with these values, or something
\* else (dict FALSE), on which goods.get raises
RawGoods(dict, id, title, url, vote, comment) ==
    [dict |-> dict, article_id |-> id, article_title |-> title,
     article_url |-> url, article_vote |-> vote, article_comment |-> comment,
     article_time |-> NoTime]

\* str(goods.get('article_id', '')): the string of null is "None"
IdString(x) ==
    IF x = AbsentV THEN "" ELSE IF x = NoneV THEN "None" ELSE x.s

\* goods.get(key, default) for a key whose default is a string
GetOr(x, default) == IF x = AbsentV THEN TextV(default) ELSE x

\* one record of goods_list inside the try of the loop: the item, or nothing
\* when the record is skipped (an empty id, title or url) or its extraction
\* raised (not an object, a title that is not a string, a count that
\* str_number_format raises on)
ParseGoods(goods) ==
    LET article_id == IdString(goods.article_id)
        title_v == GetOr(goods.article_title, <<>>)
        url_v == GetOr(goods.article_url, <<>>)
        voted == str_number_format(GetOr(goods.article_vote, <<"0">>))
        comments == str_number_format(GetOr(goods.article_comment, <<"0">>))
    IN  IF ~goods.dict THEN <<>>
        ELSE IF title_v.t # "text" THEN <<>>
        ELSE IF article_id = "" \/ Strip(title_v.s) = <<>>
                \/ url_v = NoneV \/ url_v.s = <<>> THEN <<>>
        ELSE IF voted.raised \/ comments.raised THEN <<>>
        ELSE <<[article_id |-> article_id, title |-> Strip(title_v.s),
                url |-> url_v.s, pic_url |-> <<>>, price |-> <<>>,
                voted |-> IntV(voted.v), comments |-> IntV(comments.v),
                article_mall |-> <<>>, article_time |-> goods.article_time,
                pushed |-> FALSE]>>

RECURSIVE _parse_zdm_items(_)
_parse_zdm_items(goods_list) ==
    IF goods_list = <<>> THEN <<>>
    ELSE ParseGoods(Head(goods_list)) \o _parse_zdm_items(Tail(goods_list))

----------------------------------------------------------------------------
(* CrawlerService: the HTML fallback *)

FallbackItem(id) ==
    MkItem(id, PlainTitle, StrV(15), StrV(7), RecentTime)

\* _parse_html_content(text): three or more selector items, else up to ten
\* link items, else the five items of _get_mock_data; never an empty list.
\* The document is classified by what it holds
_parse_html_content(html) ==
    IF html = "selectors"
    THEN <<FallbackItem("h1"), FallbackItem("h2"), FallbackItem("h3")>>
    ELSE IF html = "links" THEN <<FallbackItem("l1")>>
    ELSE [i \in 1..5 |-> FallbackItem(<<"mock_0", "mock_1", "mock_2",
                                        "mock_3", "mock_4">>[i])]

----------------------------------------------------------------------------
(* CrawlerService._parse_html_content on bounded documents *)

\* str(n) of a non-negative int
RECURSIVE IntToStr(_)
IntToStr(n) ==
    IF n < 10 THEN <<Digits[n + 1]>>
    ELSE IntToStr(n \div 10) \o <<Digits[(n % 10) + 1]>>

\* random.randint(lo, hi): one of the two ends, as the draw says
Rand(lo, hi, b) == IF b THEN hi ELSE lo

\* the draw of the i-th item
DrawOf(draw, i) == draw[((i - 1) % 5) + 1]

\* int(time.time()) when the i-th item is built: the second may turn after
\* the item number split
TimeAt(now_s, split, i) == IF i > split THEN now_s + 1 ELSE now_s

\* 'https://www.smzdm.com'
Origin ==
    <<"h", "t", "t", "p", "s", ":", "/", "/", "w", "w", "w", ".", "s", "m", "z",
      "d", "m", ".", "c", "o", "m">>

\* an absolute href
AbsoluteHref == <<"h", "t", "t", "p", "s", ":", "/", "/", "a", ".", "b", "/", "p">>

\* a document: whether BeautifulSoup can be imported and parses it; for each
\* selector of item_selectors that matches, in the order of the list, the
\* title of each matching element as the length of its text (0: no title
\* element, the title is the three characters of the default); the anchor
\* texts of the links with an href, as their lengths; the href of the
\* anchors of the document (<<>> in an element: it has no a[href])
Document(ok, blocks, links) ==
    [ok |-> ok, blocks |-> blocks, links |-> links, href |-> AbsoluteHref]

\* the document with another href on its anchors
Page(doc, href) == [doc EXCEPT !.href = href]

\* s.startswith(p)
StartsWith(s, p) == Len(p) <= Len(s) /\ SubSeq(s, 1, Len(p)) = p

\* if not link.startswith('http'): the origin is put in front, with a slash
\* when the link has none
ResolveLink(link) ==
    IF StartsWith(link, <<"h", "t", "t", "p">>) THEN link
    ELSE IF StartsWith(link, <<"/">>) THEN Origin \o link
    ELSE Origin \o <<"/">> \o link

\* f"https://www.example.com/product/{i}"
MockUrl(i) ==
    <<"h", "t", "t", "p", "s", ":", "/", "/", "w", "w", "w", ".", "e", "x", "a",
      "m", "p", "l", "e", ".", "c", "o", "m", "/", "p", "r", "o", "d", "u", "c",
      "t", "/">> \o IntToStr(i)

\* the fields of an item of the HTML paths that the paths differ in; the
\* title is kept as its length
HtmlItem(id, title_len, url, voted, comments) ==
    [article_id |-> id, title_len |-> title_len, url |-> url,
     voted |-> StrV(voted), comments |-> StrV(comments), pushed |-> FALSE]

\* str(int(time.time())) + str(random.randint(100, 999))
TempId(t, b) == IntToStr(t) \o IntToStr(Rand(100, 999, b))

\* the mock id without the number of the item
MockIdNoIndex(t, i) == <<"m", "o", "c", "k", "_">> \o IntToStr(t)

\* f'mock_{int(time.time())}_{i}'
MockId(t, i) ==
    <<"m", "o", "c", "k", "_">> \o IntToStr(t) \o <<"_">> \o IntToStr(i)

\* _get_mock_data(): five items, numbered 0..4
_get_mock_data(now_s, draw, split) ==
    [i \in 1..5 |->
        HtmlItem(MockId(TimeAt(now_s, split, i), i - 1), 20, MockUrl(i - 1),
                 Rand(10, 200, DrawOf(draw, i)), Rand(5, 50, DrawOf(draw, i)))]

\* the items built from the elements one selector matched
BlockItems(block, href, now_s, draw, split) ==
    [k \in 1..Len(block) |->
        HtmlItem(TempId(TimeAt(now_s, split, k), DrawOf(draw, k)),
                 IF block[k] = 0 THEN 3 ELSE block[k], ResolveLink(href),
                 Rand(0, 100, DrawOf(draw, k)), Rand(0, 50, DrawOf(draw, k)))]

\* item['title'] != default and len(item['title']) > 5
ValidItem(item) == item.title_len > 5

\* the loop over item_selectors: the valid items of the first selector that
\* gives three of them; <<>> when no selector does
RECURSIVE SelectorLoop(_, _, _, _, _)
SelectorLoop(blocks, href, now_s, draw, split) ==
    IF blocks = <<>> THEN <<>>
    ELSE LET valid_items ==
                 SelectSeq(BlockItems(Head(blocks), href, now_s, draw, split),
                           ValidItem)
         IN  IF Len(valid_items) >= 3 THEN valid_items
             ELSE SelectorLoop(Tail(blocks), href, now_s, draw, split)

\* the scan of all_links[:50]: an item for every link whose text has more
\* than 10 characters, the title cut to 100, 'url': link['href']
RECURSIVE LinkLoop(_, _, _, _, _, _)
LinkLoop(links, href, k, now_s, draw, split) ==
    IF k > Len(links) \/ k > 50 THEN <<>>
    ELSE (IF links[k] > 10
          THEN <<HtmlItem(TempId(TimeAt(now_s, split, k), DrawOf(draw, k)),
                          IF links[k] > 100 THEN 100 ELSE links[k], href,
                          Rand(0, 50, DrawOf(draw, k)), Rand(0, 20, DrawOf(draw, k)))>>
          ELSE <<>>)
         \o LinkLoop(links, href, k + 1, now_s, draw, split)

\* ParseHtmlDocument returning the list of the link scan as it is, without
\* the mock data when it is empty
ParseHtmlDocumentNoMock(doc, now_s, draw, split) ==
    IF ~doc.ok THEN _get_mock_data(now_s, draw, split)
    ELSE LET selected == SelectorLoop(doc.blocks, doc.href, now_s, draw, split)
             linked == LinkLoop(doc.links, doc.href, 1, now_s, draw, split)
         IN  IF selected # <<>> THEN selected
             ELSE SubSeq(linked, 1, IF Len(linked) > 10 THEN 10 ELSE Len(linked))

\* _parse_html_content(html_content) on a document
ParseHtmlDocument(doc, now_s, draw, split) ==
    IF ~doc.ok THEN _get_mock_data(now_s, draw, split)
    ELSE LET selected == SelectorLoop(doc.blocks, doc.href, now_s, draw, split)
             linked == LinkLoop(doc.links, doc.href, 1, now_s, draw, split)
         IN  IF selected # <<>> THEN selected
             ELSE IF Len(linked) > 0
                  THEN SubSeq(linked, 1, IF Len(linked) > 10 THEN 10 ELSE Len(linked))
             ELSE _get_mock_data(now_s, draw, split)

Documents ==
    {Document(TRUE, <<>>, <<>>),
     Document(TRUE, <<>>, <<10, 0>>),
     Document(TRUE, <<>>, <<11, 0, 120>>),
     Document(TRUE, <<>>, [k \in 1..12 |-> 11]),
     Document(TRUE, <<>>, [k \in 1..51 |-> IF k = 51 THEN 11 ELSE 3]),
     Document(TRUE, <<<<6, 6, 6>>>>, <<11>>),
     Document(TRUE, <<<<6, 6, 0>>>>, <<>>),
     Document(TRUE, <<<<6, 5>>, <<6, 0, 7, 8>>>>, <<>>),
     Document(TRUE, <<<<6>>>>, <<11>>),
     Document(FALSE, <<<<6, 6, 6>>>>, <<11>>)}

\* the hrefs of a document: absolute, from the root, from the directory of
\* the page, one whose first segment starts with the letters http, and none
Hrefs ==
    {AbsoluteHref, <<"/", "p">>, <<"p">>, <<"h", "t", "t", "p", "d", "/", "p">>,
     <<>>}

HtmlInit ==
    /\ epc = "input"
    /\ html_content \in {Page(doc, href) : doc \in Documents, href \in Hrefs}
    /\ html_items = <<>>
    /\ number_arg = NoneV
    /\ number_ret = NoneV
    /\ goods_in = <<>>
    /\ goods_out = <<>>

HtmlParse ==
    /\ epc = "input"
    /\ \E draw \in [1..5 -> BOOLEAN], split \in 0..5 :
           html_items' = ParseHtmlDocument(html_content, clock, draw, split)
    /\ epc' = "done"
    /\ UNCHANGED <<html_content, number_arg, number_ret, goods_in, goods_out>>
    /\ UNCHANGED <<procVars, storeVars, mainVars, fetchVars, cookieVars, crawlVars,
                   schemaVars>>

NextHtml == HtmlParse

InitHtml ==
    HtmlInit /\ ProcIdle /\ StoreIdle /\ MainIdle /\ FetchIdle
    /\ CookieIdle /\ CrawlIdle /\ SchemaIdle

SpecHtml == InitHtml /\ [][NextHtml]_vars

----------------------------------------------------------------------------
(* str_number_format on bounded arguments *)

NumberChars == {"1", "5", "9", ".", "k", "w", " ", "a", "-"}

\* longer strings whose scaled value is not an integer
LongNumbers ==
    {<<"1", ".", "9", "9", "9", "9", "k">>,
     <<".", "0", "0", "0", "9", "k">>,
     <<"1", ".", "0", "0", "0", "0", "4", "w">>,
     <<"-", "1", ".", "9", "9", "9", "9", "K">>}

\* what the upstream can put in article_vote and article_comment: a string,
\* null, or a JSON number
NumberArgs ==
    {TextV(s) : s \in SeqsUpTo(NumberChars, MaxNumLen)}
    \cup {TextV(s) : s \in LongNumbers}
    \cup {NoneV, IntV(0), IntV(5)}

NumberInit ==
    /\ epc = "input"
    /\ number_arg \in NumberArgs
    /\ number_ret = NoneV
    /\ html_content = <<>>
    /\ html_items = <<>>
    /\ goods_in = <<>>
    /\ goods_out = <<>>

NumberFormat ==
    /\ epc = "input"
    /\ number_ret' = str_number_format(number_arg)
    /\ epc' = "done"
    /\ UNCHANGED <<number_arg, html_content, html_items, goods_in, goods_out>>
    /\ UNCHANGED <<procVars, storeVars, mainVars, fetchVars, cookieVars, crawlVars,
                   schemaVars>>

NextNumber == NumberFormat

InitNumber ==
    NumberInit /\ ProcIdle /\ StoreIdle /\ MainIdle /\ FetchIdle
    /\ CookieIdle /\ CrawlIdle /\ SchemaIdle

SpecNumber == InitNumber /\ [][NextNumber]_vars

----------------------------------------------------------------------------
(* CrawlerService._parse_zdm_items on bounded goods lists *)

GoodRecord(id, vote) ==
    RawGoods(TRUE, IdV(id), TextV(<<" ", "x">>), TextV(<<"u">>), vote, AbsentV)

\* the records the upstream can send: two complete ones, and records with
\* one field empty, blank, absent, null or of another type
RawRecords ==
    {GoodRecord("a", TextV(<<"1", "5">>)),
     GoodRecord("b", TextV(<<"1", ".", "5", "k">>)),
     GoodRecord("", AbsentV),
     [GoodRecord("a", AbsentV) EXCEPT !.article_id = AbsentV],
     [GoodRecord("a", AbsentV) EXCEPT !.article_id = NoneV],
     [GoodRecord("a", AbsentV) EXCEPT !.article_title = TextV(<<" ">>)],
     [GoodRecord("a", AbsentV) EXCEPT !.article_title = AbsentV],
     [GoodRecord("a", AbsentV) EXCEPT !.article_title = NoneV],
     [GoodRecord("a", AbsentV) EXCEPT !.article_url = TextV(<<>>)],
     [GoodRecord("a", AbsentV) EXCEPT !.article_url = NoneV],
     GoodRecord("a", IntV(5)),
     [GoodRecord("a", AbsentV) EXCEPT !.article_comment = IntV(5)],
     [GoodRecord("a", AbsentV) EXCEPT !.dict = FALSE]}

ParseInit ==
    /\ epc = "input"
    /\ goods_in \in SeqsUpTo(RawRecords, MaxGoods)
    /\ goods_out = <<>>
    /\ html_content = <<>>
    /\ html_items = <<>>
    /\ number_arg = NoneV
    /\ number_ret = NoneV

ParseZdmItems ==
    /\ epc = "input"
    /\ goods_out' = _parse_zdm_items(goods_in)
    /\ epc' = "done"
    /\ UNCHANGED <<goods_in, html_content, html_items, number_arg, number_ret>>
    /\ UNCHANGED <<procVars, storeVars, mainVars, fetchVars, cookieVars, crawlVars,
                   schemaVars>>

NextParse == ParseZdmItems

InitParse ==
    ParseInit /\ ProcIdle /\ StoreIdle /\ MainIdle /\ FetchIdle
    /\ CookieIdle /\ CrawlIdle /\ SchemaIdle

SpecParse == InitParse /\ [][NextParse]_vars

----------------------------------------------------------------------------
(* The cookie operations on bounded inputs *)

FileStates ==
    {FileOther(k) : k \in {"absent", "unreadable", "malformed", "notdict"}}
    \cup {FileDict(c, ts, TRUE) :
            c \in {"missing", "null", "empty", "cached"},
            ts \in {NoneV, IntV(StartClock), IntV(StartClock - cookies_expire_time)}}
    \cup {FileDict(c, NoneV, FALSE) : c \in {"null", "cached"}}

CookieInit ==
    /\ cookies = "None"
    /\ cookies_made = 0
    /\ cookies_last_updated = IntV(0)
    /\ cookies_file \in FileStates
    /\ clock = StartClock
    /\ is_ci \in BOOLEAN
    /\ cookie_op = NoCookieOp
    /\ ticks = 0

GetOrUpdateCookies ==
    /\ \E outcome \in WriteOutcomes :
           SetCookies("get_or_update",
                      NeedsUpdate(cookies, cookies_last_updated, clock),
                      _get_or_update_cookies(cookies, cookies_made, cookies_last_updated,
                                             cookies_file, clock, is_ci, outcome))
    /\ UNCHANGED <<clock, is_ci, ticks>>
    /\ UNCHANGED <<procVars, storeVars, mainVars, fetchVars, crawlVars, extractVars, schemaVars>>

UpdateCookies ==
    /\ \E outcome \in WriteOutcomes :
           SetCookies("update", TRUE,
                      _update_cookies(cookies, cookies_made, cookies_last_updated, cookies_file,
                                      clock, is_ci, outcome))
    /\ UNCHANGED <<clock, is_ci, ticks>>
    /\ UNCHANGED <<procVars, storeVars, mainVars, fetchVars, crawlVars, extractVars, schemaVars>>

ClearCookies ==
    /\ \E removed \in BOOLEAN : clear_cookies(removed)
    /\ UNCHANGED <<clock, is_ci, ticks>>
    /\ UNCHANGED <<procVars, storeVars, mainVars, fetchVars, crawlVars, extractVars, schemaVars>>

\* time passes between two operations
Ticks == {1, cookies_expire_time - 1}

Tick ==
    /\ ticks < MaxTicks
    /\ ticks' = ticks + 1
    /\ \E d \in Ticks : clock' = clock + d
    /\ UNCHANGED <<cookies, cookies_made, cookies_last_updated, cookies_file, is_ci, cookie_op>>
    /\ UNCHANGED <<procVars, storeVars, mainVars, fetchVars, crawlVars, extractVars, schemaVars>>

NextCookies == GetOrUpdateCookies \/ UpdateCookies \/ ClearCookies \/ Tick

InitCookies ==
    CookieInit /\ ProcIdle /\ StoreIdle /\ MainIdle
    /\ FetchIdle /\ CrawlIdle /\ ExtractIdle /\ SchemaIdle

SpecCookies == InitCookies /\ [][NextCookies]_vars

----------------------------------------------------------------------------
(* CrawlerService._fetch_page_data *)

MAX_RETRY == 3

\* what one attempt did
Attempt(resp, refresh, html, outcome, sleep) ==
    [resp |-> resp, refresh |-> refresh, html |-> html, outcome |-> outcome,
     sleep |-> sleep]

\* HandleResponse with the fallback also run when the success flag is not 1
HandleResponseFallback(resp, refresh_raises) ==
    LET refreshed == IF refresh_raises THEN "raised" ELSE "ok"
        step(refresh, html, todo, its) ==
            [refresh |-> refresh, html |-> html, todo |-> todo, items |-> its]
    IN  IF resp.status = 0
        THEN step("none", FALSE, "retry", <<>>)
        ELSE IF resp.status # 200
        THEN step(IF resp.status \in {401, 403} THEN refreshed ELSE "none",
                  FALSE, "continue", <<>>)
        ELSE IF resp.json_type
        THEN IF resp.body.json = "invalid"
             THEN step("none", TRUE, "return", _parse_html_content(resp.body.html))
             ELSE IF resp.body.json = "other"
             THEN step("none", FALSE, "retry", <<>>)
             ELSE IF resp.body.suc = IntV(1)
             THEN step("none", FALSE, "return", _parse_zdm_items(resp.body.goods))
             ELSE step(refreshed, TRUE, "return", _parse_html_content(resp.body.html))
        ELSE step("none", TRUE, "return", _parse_html_content(resp.body.html))

\* HandleResponse with a token refresh also on a body that is not JSON
HandleResponseRefresh(resp, refresh_raises) ==
    LET refreshed == IF refresh_raises THEN "raised" ELSE "ok"
        step(refresh, html, todo, its) ==
            [refresh |-> refresh, html |-> html, todo |-> todo, items |-> its]
    IN  IF resp.status = 0
        THEN step("none", FALSE, "retry", <<>>)
        ELSE IF resp.status # 200
        THEN step(IF resp.status \in {401, 403} THEN refreshed ELSE "none",
                  FALSE, "continue", <<>>)
        ELSE IF resp.json_type
        THEN IF resp.body.json = "invalid"
             THEN step(refreshed, TRUE, "return", _parse_html_content(resp.body.html))
             ELSE IF resp.body.json = "other"
             THEN step("none", FALSE, "retry", <<>>)
             ELSE IF resp.body.suc = IntV(1)
             THEN step("none", FALSE, "return", _parse_zdm_items(resp.body.goods))
             ELSE step(refreshed, FALSE, "retry", <<>>)
        ELSE step("none", TRUE, "return", _parse_html_content(resp.body.html))

\* RefreshStatuses with the server errors added
RefreshStatusesWide == {401, 403, 500}

\* if response.status in [401, 403]
RefreshStatuses == {401, 403}

\* the body of the loop for one response.  refresh: "none", "ok" or "raised"
\* (_update_cookies called, and whether an exception left it, which the
\* caller swallows; _update_cookies itself catches every Exception); html:
\* whether _parse_html_content ran on the response text; todo: "return" (with
\* items), "continue" (the non-200 continue) or "retry" (fall to the loop tail)
HandleResponse(resp, refresh_raises) ==
    LET refreshed == IF refresh_raises THEN "raised" ELSE "ok"
        step(refresh, html, todo, its) ==
            [refresh |-> refresh, html |-> html, todo |-> todo, items |-> its]
    IN  IF resp.status = 0
        THEN step("none", FALSE, "retry", <<>>)
        ELSE IF resp.status # 200
        THEN step(IF resp.status \in RefreshStatuses THEN refreshed ELSE "none",
                  FALSE, "continue", <<>>)
        ELSE IF resp.json_type
        THEN IF resp.body.json = "invalid"
             THEN step("none", TRUE, "return", _parse_html_content(resp.body.html))
             ELSE IF resp.body.json = "other"
             THEN step("none", FALSE, "retry", <<>>)
             ELSE IF resp.body.suc = IntV(1)
             THEN step("none", FALSE, "return", _parse_zdm_items(resp.body.goods))
             ELSE step(refreshed, FALSE, "retry", <<>>)
        ELSE step("none", TRUE, "return", _parse_html_content(resp.body.html))

----------------------------------------------------------------------------
(* One call of _fetch_page_data against a bounded upstream *)

Goods(id, title, vote) ==
    RawGoods(TRUE, IdV(id), TextV(title), TextV(<<"u">>), vote, TextV(<<"7">>))

GoodsLists ==
    {<<>>,
     <<Goods("a", PlainTitle, TextV(<<"1", "2">>))>>,
     <<Goods("a", <<" ">>, TextV(<<"1", "2">>)),
       Goods("b", PlainTitle, TextV(<<"1", ".", "5", "k">>))>>}

JsonBody(suc, goods) == [json |-> "dict", suc |-> suc, goods |-> goods, html |-> "nothing"]
JsonOther == [json |-> "other", suc |-> NoneV, goods |-> <<>>, html |-> "nothing"]
HtmlBody(h) == [json |-> "invalid", suc |-> NoneV, goods |-> <<>>, html |-> h]

Bodies ==
    {JsonBody(IntV(1), g) : g \in GoodsLists}
    \cup {JsonBody(IntV(0), <<>>), JsonBody(NoneV, <<>>), JsonOther}
    \cup {HtmlBody(h) : h \in {"selectors", "links", "nothing"}}

\* status 0 stands for a request that raised (connection error, timeout)
Responses ==
    {[status |-> st, json_type |-> FALSE, body |-> HtmlBody("nothing")] :
        st \in {0, 401, 403, 500}}
    \cup {[status |-> 200, json_type |-> j, body |-> b] : j \in BOOLEAN, b \in Bodies}

FetchInit == FetchIdle

\* LoopTail with the counter stepped by the continue and by the tail
LoopTailTwice(todo, rc) ==
    IF todo = "continue" THEN [retry_count |-> rc + 2, wait |-> 0]
    ELSE [retry_count |-> rc + 1,
          wait |-> IF rc + 1 < MAX_RETRY THEN 2 * (rc + 1) ELSE 0]

\* the end of a pass that did not return: the non-200 branch steps the
\* counter and continues; every other pass reaches the tail, which steps the
\* counter and, when attempts remain, sleeps 2 * retry_count seconds
LoopTail(todo, rc) ==
    IF todo = "continue" THEN [retry_count |-> rc + 1, wait |-> 0]
    ELSE [retry_count |-> rc + 1,
          wait |-> IF rc + 1 < MAX_RETRY THEN 2 * (rc + 1) ELSE 0]

\* the cookie calls of one pass: _get_or_update_cookies at its start and
\* _update_cookies where the response asks for a refresh
PassCookies(refresh, o1, o2) ==
    LET st1 == _get_or_update_cookies(cookies, cookies_made, cookies_last_updated,
                                      cookies_file, clock, is_ci, o1)
    IN  IF refresh = "ok"
        THEN _update_cookies(st1.cookies, st1.made, st1.last, st1.file, clock, is_ci,
                             o2)
        ELSE st1

\* one pass of the while loop: the request, the handling of its response and
\* the loop tail (retry_count += 1 and, when attempts remain, the backoff)
FetchAttempt ==
    /\ fpc = "loop"
    /\ retry_count < MAX_RETRY
    /\ \E resp \in Responses, refresh_raises \in BOOLEAN :
           LET h == HandleResponse(resp, refresh_raises)
               t == LoopTail(h.todo, retry_count)
           IN  /\ fetch_log' = Append(fetch_log,
                                      Attempt(resp, h.refresh, h.html, h.todo,
                                              IF h.todo = "return" THEN 0 ELSE t.wait))
               /\ \E o1, o2 \in WriteOutcomes :
                      LET st == PassCookies(h.refresh, o1, o2)
                      IN  /\ cookies' = st.cookies
                          /\ cookies_made' = st.made
                          /\ cookies_last_updated' = st.last
                          /\ cookies_file' = st.file
               /\ IF h.todo = "return"
                  THEN /\ fetch_items' = h.items
                       /\ fpc' = "returned"
                       /\ UNCHANGED <<retry_count, wait_time>>
                  ELSE /\ retry_count' = t.retry_count
                       /\ wait_time' = t.wait
                       /\ fpc' = IF t.wait > 0 THEN "sleep"
                                 ELSE IF t.retry_count < MAX_RETRY THEN "loop"
                                 ELSE "returned"
                       /\ UNCHANGED fetch_items
    /\ cookie_op' = [NoCookieOp EXCEPT !.op = "_fetch_page_data"]
    /\ UNCHANGED <<clock, is_ci, ticks>>
    /\ UNCHANGED <<procVars, storeVars, mainVars, crawlVars, extractVars, schemaVars>>

\* await asyncio.sleep(wait_time) is over
FetchWake ==
    /\ fpc = "sleep"
    /\ fpc' = "loop"
    /\ clock' = clock + wait_time
    /\ wait_time' = 0
    /\ UNCHANGED <<retry_count, fetch_items, fetch_log>>
    /\ UNCHANGED <<cookies, cookies_made, cookies_last_updated, cookies_file, is_ci,
                   cookie_op, ticks>>
    /\ UNCHANGED <<procVars, storeVars, mainVars, crawlVars, extractVars, schemaVars>>

NextFetch == FetchAttempt \/ FetchWake

InitFetch ==
    FetchInit /\ ProcIdle /\ StoreIdle /\ MainIdle
    /\ CookieIdle /\ CrawlIdle /\ ExtractIdle /\ SchemaIdle

SpecFetch == InitFetch /\ [][NextFetch]_vars

\* the event loop resumes the awaited coroutine: a request ends (it has a
\* 30 s timeout) and a sleep ends
SpecFetchLive == InitFetch /\ [][NextFetch]_vars /\ WF_vars(NextFetch)

----------------------------------------------------------------------------
(* _fetch_page_data against an upstream that serves an HTML page *)

\* what the upstream does with a request: the request raises (status 0), or
\* it answers 500, or 200 with the page as the body, under a content type
\* that has application/json in it or not.  The page is not JSON: json.loads
\* raises JSONDecodeError on it
PageAnswers ==
    {[status |-> st, json_type |-> j] : st \in {0, 500, 200}, j \in BOOLEAN}

\* the draws of random.randint while a page is parsed: all low or all high
PageDraws == {[i \in 1..5 |-> b] : b \in BOOLEAN}

\* one pass of the while loop: on a 200 _parse_html_content runs on the
\* response text, and  if html_items  returns them
FetchPage ==
    /\ fpc = "loop"
    /\ retry_count < MAX_RETRY
    /\ \E ans \in PageAnswers, draw \in PageDraws, split \in {0, 2} :
           LET ran == ans.status = 200
               parsed == IF ran
                         THEN ParseHtmlDocument(html_content, clock, draw, split)
                         ELSE <<>>
               todo == IF ans.status = 0 THEN "retry"
                       ELSE IF ans.status # 200 THEN "continue"
                       ELSE IF parsed # <<>> THEN "return"
                       ELSE "retry"
               t == LoopTail(todo, retry_count)
           IN  /\ fetch_log' = Append(fetch_log,
                                      Attempt(ans, "none", ran, todo,
                                              IF todo = "return" THEN 0 ELSE t.wait))
               /\ html_items' = IF ran THEN parsed ELSE html_items
               /\ epc' = IF ran THEN "done" ELSE epc
               /\ IF todo = "return"
                  THEN /\ fetch_items' = parsed
                       /\ fpc' = "returned"
                       /\ UNCHANGED <<retry_count, wait_time>>
                  ELSE /\ retry_count' = t.retry_count
                       /\ wait_time' = t.wait
                       /\ fpc' = IF t.wait > 0 THEN "sleep"
                                 ELSE IF t.retry_count < MAX_RETRY THEN "loop"
                                 ELSE "returned"
                       /\ UNCHANGED fetch_items
    /\ \E o1 \in WriteOutcomes :
           LET st == PassCookies("none", o1, o1)
           IN  /\ cookies' = st.cookies
               /\ cookies_made' = st.made
               /\ cookies_last_updated' = st.last
               /\ cookies_file' = st.file
    /\ cookie_op' = [NoCookieOp EXCEPT !.op = "_fetch_page_data"]
    /\ UNCHANGED <<clock, is_ci, ticks>>
    /\ UNCHANGED <<html_content, number_arg, number_ret, goods_in, goods_out>>
    /\ UNCHANGED <<procVars, storeVars, mainVars, crawlVars, schemaVars>>

NextPage == FetchPage \/ FetchWake

InitPage ==
    HtmlInit /\ FetchInit /\ ProcIdle /\ StoreIdle /\ MainIdle
    /\ CookieIdle /\ CrawlIdle /\ SchemaIdle

SpecPage == InitPage /\ [][NextPage]_vars

----------------------------------------------------------------------------
(* CrawlerService.crawl_zdm_data *)

ZDM_URL == <<"p=1", "p=2", "p=3">>

PaceDelay == 1

\* Extend with the new items put in front
ExtendInFront(all, its) == IF its # <<>> THEN its \o all ELSE all

\* all_items.extend(items), under  if items
Extend(all, its) == IF its # <<>> THEN all \o its ELSE all

\* the lists a call of _fetch_page_data can return: the items of a response
\* it returns on, or the empty list of the exhausted retries
FetchResults ==
    {<<>>} \cup {HandleResponse(r, FALSE).items :
                    r \in {x \in Responses : HandleResponse(x, FALSE).todo = "return"}}

CrawlEvent(ev, i, its) == [ev |-> ev, url |-> i, items |-> its]

\* crawl_zdm_data() is called: _get_or_update_cookies(), then the for loop
\* is entered
CrawlBegin ==
    /\ cpc = "idle"
    /\ \E outcome \in WriteOutcomes :
           SetCookies("get_or_update",
                      NeedsUpdate(cookies, cookies_last_updated, clock),
                      _get_or_update_cookies(cookies, cookies_made, cookies_last_updated,
                                             cookies_file, clock, is_ci, outcome))
    /\ cpc' = "call"
    /\ url_index' = 1
    /\ all_items' = <<>>
    /\ crawl_log' = <<>>
    /\ UNCHANGED <<clock, is_ci, ticks>>
    /\ UNCHANGED <<procVars, storeVars, mainVars, fetchVars, extractVars, schemaVars>>

\* items = await self._fetch_page_data(url): the call starts
CrawlFetchCall ==
    /\ cpc = "call"
    /\ crawl_log' = Append(crawl_log, CrawlEvent("call", url_index, <<>>))
    /\ cpc' = "fetching"
    /\ UNCHANGED <<url_index, all_items>>
    /\ UNCHANGED <<procVars, storeVars, mainVars, fetchVars, cookieVars, extractVars, schemaVars>>

\* the call returns one of the lists _fetch_page_data can return, after the
\* cookie calls of its first pass; the list is added to all_items and the
\* pacing sleep starts
CrawlFetchReturn ==
    /\ cpc = "fetching"
    /\ \E its \in FetchResults :
           /\ all_items' = Extend(all_items, its)
           /\ crawl_log' = Append(crawl_log, CrawlEvent("return", url_index, its))
    /\ \E refresh \in {"none", "ok"}, o1, o2 \in WriteOutcomes :
           LET st == PassCookies(refresh, o1, o2)
           IN  /\ cookies' = st.cookies
               /\ cookies_made' = st.made
               /\ cookies_last_updated' = st.last
               /\ cookies_file' = st.file
    /\ cookie_op' = [NoCookieOp EXCEPT !.op = "_fetch_page_data"]
    /\ cpc' = "pace"
    /\ UNCHANGED <<url_index, clock, is_ci, ticks>>
    /\ UNCHANGED <<procVars, storeVars, mainVars, fetchVars, extractVars, schemaVars>>

\* await asyncio.sleep(1) is over: the next url, or return all_items
CrawlPace ==
    /\ cpc = "pace"
    /\ crawl_log' = Append(crawl_log, CrawlEvent("sleep", url_index, <<>>))
    /\ clock' = clock + PaceDelay
    /\ IF url_index < Len(ZDM_URL)
       THEN url_index' = url_index + 1 /\ cpc' = "call"
       ELSE cpc' = "returned" /\ UNCHANGED url_index
    /\ UNCHANGED all_items
    /\ UNCHANGED <<cookies, cookies_made, cookies_last_updated, cookies_file, is_ci,
                   cookie_op, ticks>>
    /\ UNCHANGED <<procVars, storeVars, mainVars, fetchVars, extractVars, schemaVars>>

NextCrawl == CrawlBegin \/ CrawlFetchCall \/ CrawlFetchReturn \/ CrawlPace

InitCrawl ==
    CookieInit /\ CrawlIdle /\ ProcIdle /\ StoreIdle
    /\ MainIdle /\ FetchIdle /\ ExtractIdle /\ SchemaIdle

SpecCrawl == InitCrawl /\ [][NextCrawl]_vars

----------------------------------------------------------------------------
(* The pipeline on bounded inputs *)

TitleChars == {"Q", "M", "3", "S"}
SortIds == <<"a", "b", "c", "d", "e">>

\* items that differ in their id (missing, empty, equal) and carry a vote
\* count that tells two occurrences of one id apart
DedupItems ==
    {MkItem(id, PlainTitle, IntV(v), IntV(5), NoTime) :
        id \in {None, "", "a", "b"}, v \in {10, 20}}

\* items around both thresholds, with the three kinds of title and both
\* Python types of a count
FilterItems ==
    {MkItem(id, t, v, c, NoTime) :
        id \in {"a", "b"},
        t \in {PlainTitle, <<"Q", "3", "M">>, <<"Q", "S", "M">>},
        v \in {IntV(9), IntV(10), StrV(15)},
        c \in {IntV(4), IntV(5), StrV(7)}}

TitleItems ==
    {MkItem("a", t, IntV(10), IntV(5), NoTime) :
        t \in SeqsUpTo(TitleChars, MaxTitleLen)}

\* lists of items of pairwise distinct ids (the k-th carries the k-th id)
\* whose (votes, comments) keys repeat and tie
SortKeys == {<<v, c>> : v \in {10, 20}, c \in {1, 5, 8}}

SortLists ==
    UNION {{[k \in 1..n |->
                MkItem(SortIds[k], PlainTitle, IntV(ks[k][1]), IntV(ks[k][2]), NoTime)] :
            ks \in [1..n -> SortKeys]} : n \in 0..MaxItems}

ProcInputs ==
    {[items |-> l, pushed |-> p] :
        l \in SeqsUpTo(DedupItems, MaxItems), p \in SUBSET {"a", "b"}}
    \cup
    {[items |-> l, pushed |-> p] :
        l \in SeqsUpTo(FilterItems, MaxFilterLen), p \in SUBSET {"a", "b"}}
    \cup
    {[items |-> l, pushed |-> {}] : l \in SeqsUpTo(TitleItems, 1)}
    \cup
    {[items |-> l, pushed |-> {}] : l \in SortLists}

ProcInit ==
    /\ min_vote_threshold = DefaultMinVote
    /\ min_comment_threshold = DefaultMinComment
    /\ \E in \in ProcInputs : raw_items = in.items /\ pushed_ids = in.pushed
    /\ unique_items = <<>>
    /\ kept_items = <<>>
    /\ sorted_items = <<>>
    /\ ppc = "start"

\* main.py: 69-72, with the thresholds of the configuration
SetThresholds ==
    /\ ppc = "start"
    /\ \E min_vote \in {NoneV, IntV(20)}, min_comment \in {NoneV, IntV(1)} :
           set_thresholds(min_vote, min_comment)
    /\ UNCHANGED <<raw_items, pushed_ids, unique_items, kept_items,
                   sorted_items, ppc>>
    /\ UNCHANGED <<storeVars, mainVars, fetchVars, cookieVars, crawlVars, extractVars, schemaVars>>

ProcessData ==
    /\ ppc = "start"
    /\ LET r == process_data(raw_items, pushed_ids)
       IN  /\ unique_items' = r.unique
           /\ kept_items' = r.kept
           /\ sorted_items' = r.sorted
           /\ ppc' = IF r.raised THEN "raised" ELSE "done"
    /\ UNCHANGED <<min_vote_threshold, min_comment_threshold,
                   raw_items, pushed_ids>>
    /\ UNCHANGED <<storeVars, mainVars, fetchVars, cookieVars, crawlVars, extractVars, schemaVars>>

NextProc == SetThresholds \/ ProcessData

InitProc ==
    ProcInit /\ StoreIdle /\ MainIdle /\ FetchIdle
    /\ CookieIdle /\ CrawlIdle /\ ExtractIdle /\ SchemaIdle

SpecProc == InitProc /\ [][NextProc]_vars

InitStore ==
    StoreInit /\ ProcIdle /\ MainIdle /\ FetchIdle
    /\ CookieIdle /\ CrawlIdle /\ ExtractIdle /\ SchemaIdle

SpecStore == InitStore /\ [][NextStore]_vars

InitTable ==
    StoreInit /\ ProcIdle /\ MainIdle /\ FetchIdle
    /\ CookieIdle /\ CrawlIdle /\ ExtractIdle /\ SchemaIdle

SpecTable == InitTable /\ [][NextTable]_vars

----------------------------------------------------------------------------
(* Runs of main() against a store file that holds a pushed row *)

\* the row of the file: id a, pushed, published inside the window, on its
\* first day, before it, or without a time
SeededRows ==
    {TableItem("a", 10, t, TRUE) : t \in {RecentTime, EdgeTime, OldTime, NullTime}}

SeededStore ==
    /\ conn = "closed"
    /\ \E data \in SeededRows : db = InsertOrReplace(EmptyTable, data)
    /\ disk = db
    /\ store_op = NoOp
    /\ store_prev = NoOp
    /\ unpushed = {}

InitSeeded ==
    MainIdle /\ SeededStore /\ ProcIdle /\ FetchIdle
    /\ CookieIdle /\ CrawlIdle /\ ExtractIdle /\ SchemaIdle

SpecSeeded == InitSeeded /\ [][Next]_vars

----------------------------------------------------------------------------
(* DatabaseUtil.connect and _create_tables on a store file of any age *)

MaxRows == 2

Schema(table, rows, old, old_rows) ==
    [zdm |-> table, rows |-> rows, old |-> old, old_rows |-> old_rows]

\* what _create_tables did: whether an exception left it, the tables it
\* left, and the copy of the old rows ("none": no rebuild came to it)
Setup(raised, st, copy) == [raised |-> raised, st |-> st, copy |-> copy]

\* the statement that fails, if one does: the opening of the file, the
\* SELECT on sqlite_master, the ALTER TABLE ... RENAME, the CREATE TABLE or
\* the INSERT ... SELECT of the copy; the PRAGMA, the DROP and the commit are
\* taken to succeed
FailPoints == {"none", "open", "select", "rename", "create", "copy"}

\* _create_tables() on the tables st.  The RENAME fails on its own when
\* ZDM_old is there; the INSERT ... SELECT copies every row or, failing, none
_create_tables(st, fail) ==
    IF fail = "select" THEN Setup(TRUE, st, "none")
    ELSE IF st.zdm = "complete" THEN Setup(FALSE, st, "none")
    ELSE IF st.zdm = "absent"
    THEN IF fail = "create" THEN Setup(TRUE, st, "none")
         ELSE Setup(FALSE, Schema("complete", 0, st.old, st.old_rows), "none")
    ELSE IF st.old \/ fail = "rename" THEN Setup(TRUE, st, "none")
    ELSE IF fail = "create"
    THEN Setup(TRUE, Schema("absent", 0, TRUE, st.rows), "none")
    ELSE IF fail = "copy"
    THEN Setup(FALSE, Schema("complete", 0, FALSE, 0), "failed")
    ELSE Setup(FALSE, Schema("complete", st.rows, FALSE, 0), "copied")

\* the schema variables after _create_tables left r
SetSchema(r) ==
    /\ zdm' = r.st.zdm
    /\ zdm_rows' = r.st.rows
    /\ zdm_old' = r.st.old
    /\ zdm_old_rows' = r.st.old_rows
    /\ last_connect' = [ret |-> IF r.raised THEN "raised" ELSE "returned",
                        setup |-> TRUE, copy |-> r.copy, rows |-> zdm_rows,
                        after_failure |-> FALSE]

SchemaInit ==
    /\ _conn = "None"
    /\ zdm \in {"absent", "lacking", "complete"}
    /\ zdm_rows \in 0..MaxRows
    /\ zdm = "absent" => zdm_rows = 0
    /\ zdm_old \in BOOLEAN
    /\ zdm_old_rows \in 0..MaxRows
    /\ ~zdm_old => zdm_old_rows = 0
    /\ last_connect = NoConnect

\* history: the stored connection is one whose _create_tables raised
SetupFailed ==
    \/ last_connect.ret = "raised" /\ last_connect.setup
    \/ last_connect.after_failure

\* connect(): if not self._conn, the connection is stored and then
\* _create_tables runs; an exception of _create_tables leaves the connection
\* stored
Connect ==
    /\ \E fail \in FailPoints :
           IF _conn = "open"
           THEN /\ last_connect' = [ret |-> "returned", setup |-> FALSE,
                                    copy |-> "none", rows |-> zdm_rows,
                                    after_failure |-> SetupFailed]
                /\ UNCHANGED <<_conn, zdm, zdm_rows, zdm_old, zdm_old_rows>>
           ELSE IF fail = "open"
           THEN /\ last_connect' = [ret |-> "raised", setup |-> FALSE,
                                    copy |-> "none", rows |-> zdm_rows,
                                    after_failure |-> FALSE]
                /\ UNCHANGED <<_conn, zdm, zdm_rows, zdm_old, zdm_old_rows>>
           ELSE /\ _conn' = "open"
                /\ SetSchema(_create_tables(Schema(zdm, zdm_rows, zdm_old,
                                                    zdm_old_rows), fail))
    /\ UNCHANGED <<procVars, storeVars, mainVars, fetchVars, cookieVars, crawlVars,
                   extractVars>>

\* disconnect(): the connection is closed and forgotten
Disconnect ==
    /\ _conn = "open"
    /\ _conn' = "None"
    /\ last_connect' = [NoConnect EXCEPT !.ret = "disconnected"]
    /\ UNCHANGED <<zdm, zdm_rows, zdm_old, zdm_old_rows>>
    /\ UNCHANGED <<procVars, storeVars, mainVars, fetchVars, cookieVars, crawlVars,
                   extractVars>>

NextSchema == Connect \/ Disconnect

InitSchema ==
    SchemaInit /\ ProcIdle /\ StoreIdle /\ MainIdle /\ FetchIdle
    /\ CookieIdle /\ CrawlIdle /\ ExtractIdle

SpecSchema == InitSchema /\ [][NextSchema]_vars

----------------------------------------------------------------------------
(* Properties of the pipeline *)

InSeq(s, x) == \E k \in 1..Len(s) : s[k] = x

IntCounts(item) == item.voted.t = "int" /\ item.comments.t = "int"

\* raw_items[i] is the first item of the input with its (non-empty) id
FirstOccurrence(items, i) ==
    /\ Truthy(items[i].article_id)
    /\ \A j \in 1..(i - 1) : items[j].article_id # items[i].article_id

FirstOccurrences(items) == {i \in 1..Len(items) : FirstOccurrence(items, i)}

\* the k-th smallest index of a set of indexes
KthOf(S, k) == CHOOSE i \in S : Cardinality({j \in S : j < i}) = k - 1

\* C4: the dedup output has no two items of equal id and no item whose id is
\* missing or empty, and is the sequence of the first occurrences of the
\* non-empty ids of the input, in input order.
C4_Dedup ==
    ppc # "start" =>
        /\ \A i, j \in 1..Len(unique_items) :
               i # j => unique_items[i].article_id # unique_items[j].article_id
        /\ \A i \in 1..Len(unique_items) : Truthy(unique_items[i].article_id)
        /\ Len(unique_items) = Cardinality(FirstOccurrences(raw_items))
        /\ \A k \in 1..Len(unique_items) :
               unique_items[k] = raw_items[KthOf(FirstOccurrences(raw_items), k)]

\* a run whose input repeats an id with another vote count and holds an item
\* with an empty id between the two
C4_Witness ==
    /\ ppc = "done"
    /\ Len(raw_items) = 3
    /\ raw_items[1].article_id = "a" /\ raw_items[3].article_id = "a"
    /\ raw_items[1] # raw_items[3]
    /\ raw_items[2].article_id = ""
    /\ unique_items = <<raw_items[1]>>

\* C5: an item whose id is in pushedIds is excluded whatever its vote count,
\* comment count and title (the filter does not even look at them), and no
\* item of the output of process() has its id in pushedIds.
C5_PushedExcluded ==
    /\ ppc = "done" =>
           /\ \A k \in 1..Len(sorted_items) :
                  sorted_items[k].article_id \notin pushed_ids
           /\ \A i \in 1..Len(unique_items) :
                  unique_items[i].article_id \in pushed_ids
                      => ~InSeq(kept_items, unique_items[i])
    /\ ppc # "start" =>
           ((\A i \in 1..Len(unique_items) :
                 unique_items[i].article_id \in pushed_ids) => ppc = "done")

\* an item that meets both thresholds and has a plain title is dropped because
\* its id is in pushed_ids, next to one that is kept
C5_Witness ==
    /\ ppc = "done"
    /\ Len(sorted_items) = 1
    /\ \E i \in 1..Len(unique_items) :
           /\ unique_items[i].article_id \in pushed_ids
           /\ unique_items[i].voted.v >= min_vote_threshold
           /\ unique_items[i].comments.v >= min_comment_threshold
           /\ unique_items[i].title = PlainTitle

\* the title holds Q, then one or more decimal digits, then M
HasFlashSalePattern(title) ==
    \E i, j \in 1..Len(title) :
        /\ j >= i + 2
        /\ title[i] = "Q"
        /\ title[j] = "M"
        /\ \A k \in (i + 1)..(j - 1) : IsDigit(title[k])

\* C6: an item that is not in pushedIds and whose title does not match the
\* flash-sale pattern is kept iff votes >= minVoteThreshold and
\* comments >= minCommentThreshold (kept at equality, excluded below).
C6_Thresholds ==
    ppc = "done" =>
        \A i \in 1..Len(unique_items) :
            LET item == unique_items[i]
            IN  (/\ IntCounts(item)
                 /\ item.article_id \notin pushed_ids
                 /\ ~HasFlashSalePattern(item.title))
                => (InSeq(kept_items, item)
                      <=> /\ item.voted.v >= min_vote_threshold
                          /\ item.comments.v >= min_comment_threshold)

\* an item exactly on both thresholds is kept, one with more votes and too
\* few comments is not
C6_Witness ==
    /\ ppc = "done"
    /\ \E k \in 1..Len(kept_items) :
           /\ kept_items[k].voted.v = min_vote_threshold
           /\ kept_items[k].comments.v = min_comment_threshold
    /\ \E i \in 1..Len(unique_items) :
           /\ unique_items[i].voted.v > min_vote_threshold
           /\ unique_items[i].comments.v < min_comment_threshold
           /\ ~InSeq(kept_items, unique_items[i])

Key(item) == <<item.voted.v, item.comments.v>>
Keys(items) == [k \in 1..Len(items) |-> Key(items[k])]

Perms(n) == {p \in [1..n -> 1..n] : \A i, j \in 1..n : i # j => p[i] # p[j]}

KeyAbove(a, b) == a[1] > b[1] \/ (a[1] = b[1] /\ a[2] > b[2])

\* C7: the sort output is a permutation of its input in descending order of
\* votes, ties on votes in descending order of comments, items of equal
\* (votes, comments) in their input order; (10,5),(10,8),(20,1) comes out as
\* (20,1),(10,8),(10,5).
C7_Sort ==
    ppc = "done" =>
        /\ Len(sorted_items) = Len(kept_items)
        /\ \E p \in Perms(Len(kept_items)) :
               /\ \A k \in 1..Len(sorted_items) : sorted_items[k] = kept_items[p[k]]
               /\ \A k, l \in 1..Len(sorted_items) :
                      k < l =>
                          \/ KeyAbove(Key(sorted_items[k]), Key(sorted_items[l]))
                          \/ /\ Key(sorted_items[k]) = Key(sorted_items[l])
                             /\ p[k] < p[l]
        /\ Keys(kept_items) = <<(<<10, 5>>), (<<10, 8>>), (<<20, 1>>)>>
               => Keys(sorted_items) = <<(<<20, 1>>), (<<10, 8>>), (<<10, 5>>)>>

\* the example of the claim, sorted
C7_Witness ==
    /\ ppc = "done"
    /\ Keys(kept_items) = <<(<<10, 5>>), (<<10, 8>>), (<<20, 1>>)>>
    /\ Keys(sorted_items) = <<(<<20, 1>>), (<<10, 8>>), (<<10, 5>>)>>

\* C8: an item whose title holds Q, one or more decimal digits, M anywhere is
\* excluded; the pattern does not exclude an item when the characters between
\* Q and M are not digits.
C8_FlashSale ==
    ppc = "done" =>
        \A i \in 1..Len(unique_items) :
            LET item == unique_items[i]
            IN  /\ HasFlashSalePattern(item.title) => ~InSeq(kept_items, item)
                /\ (/\ ~HasFlashSalePattern(item.title)
                    /\ item.article_id \notin pushed_ids
                    /\ IntCounts(item)
                    /\ item.voted.v >= min_vote_threshold
                    /\ item.comments.v >= min_comment_threshold)
                   => InSeq(kept_items, item)

\* a title with the pattern behind another character and two digits in it is
\* excluded although the item meets both thresholds
C8_Witness ==
    /\ ppc = "done"
    /\ Len(unique_items) = 1
    /\ unique_items[1].title = <<"Q", "3", "3", "M">>
    /\ unique_items[1].voted.v >= min_vote_threshold
    /\ unique_items[1].comments.v >= min_comment_threshold
    /\ kept_items = <<>>

\* a title with the non-digit numeral between Q and M is kept
C8_NonDigitKept ==
    /\ ppc = "done"
    /\ Len(kept_items) = 1
    /\ kept_items[1].title = <<"Q", "S", "M">>

----------------------------------------------------------------------------
(* Properties of the store *)

IdsOf(article_ids) == {article_ids[k] : k \in 1..Len(article_ids)}

\* a call update_pushed_status(ids, True) with a non-empty list of stored ids
SetPushedOfStored(o) ==
    /\ o.op = "update_pushed_status"
    /\ o.pushed
    /\ o.ids # <<>>
    /\ IdsOf(o.ids) \subseteq DOMAIN o.before

\* the first half of C2: upsert(item) with pushed = false, then getUnpushed()
\* includes the item
UpsertThenUnpushed ==
    (/\ store_op.op = "get_unpushed_records"
     /\ store_prev.op = "save_or_update"
     /\ ~store_prev.items[1].pushed)
    => store_prev.items[1] \in unpushed

\* C2: upsert(item) with pushed = false, then getUnpushed() includes the item;
\* setPushedStatus(ids, true) for a non-empty list of stored ids completes
\* without error, leaves exactly the rows of ids with pushed = true and every
\* other row and field as it was, and a getUnpushed() after it holds none of
\* the ids.
C2_RoundTrip ==
    /\ UpsertThenUnpushed
    /\ SetPushedOfStored(store_op) =>
           /\ ~store_op.raised
           /\ DOMAIN db = DOMAIN store_op.before
           /\ \A id \in DOMAIN db :
                  db[id] = IF id \in IdsOf(store_op.ids)
                           THEN [store_op.before[id] EXCEPT !.pushed = 1]
                           ELSE store_op.before[id]
    /\ (store_op.op = "get_unpushed_records" /\ SetPushedOfStored(store_prev)) =>
           \A d \in unpushed : d.article_id \notin IdsOf(store_prev.ids)

----------------------------------------------------------------------------
(* Properties of main() *)

ItemIds(items) == {items[k].article_id : k \in 1..Len(items)}

\* every enabled channel has been dispatched and has returned
DispatchReturned == Cardinality(DOMAIN results) = Len(Tasks)

\* at least one channel is enabled and every enabled channel reported success
EveryChannelSucceeded ==
    /\ DispatchReturned
    /\ Len(Tasks) > 0
    /\ \A c \in DOMAIN results : results[c]

\* the run has taken its pushed-id snapshot
SnapshotTaken ==
    pc \in {"crawl", "clear", "process", "save", "notify", "finally"}
        \/ (pc = "exited" /\ crawls > 0)

\* C1: when every enabled channel reported success for the final list of a
\* run, every item of the list is stored with pushed = true when the run ends;
\* in the next run every such item whose publishedAt is within the 30-day
\* window is in the pushed-id snapshot, is not in the final list and is not
\* notified again.
C1_NoRepeat ==
    /\ (pc \in {"finally", "exited"} /\ EveryChannelSucceeded) =>
           \A id \in ItemIds(filtered_items) :
               id \in DOMAIN db /\ db[id].pushed = 1
    /\ \A id \in delivered :
           (id \in DOMAIN db /\ SqlGe(db[id].article_time, one_month_ago(now))) =>
               /\ SnapshotTaken => id \in pushed_ids
               /\ id \notin ItemIds(filtered_items)
               /\ id \notin notified

\* the second half of C1 on its own: an item delivered by an earlier run and
\* within the window is not notified again
C1_NotNotifiedAgain ==
    \A id \in delivered :
        (id \in DOMAIN db /\ SqlGe(db[id].article_time, one_month_ago(now))) =>
            id \notin notified

\* a row's pushed flag goes to true in this step
PushedSet ==
    \E id \in DOMAIN db' :
        db'[id].pushed = 1 /\ (id \notin DOMAIN db \/ db[id].pushed # 1)

\* C3: update_pushed_status(..., pushed=True) is invoked only after the
\* dispatch of every enabled channel has returned, and only if at least one
\* channel is enabled and every enabled channel returned success; in a run
\* where some channel fails or none is enabled no pushed flag is set to true.
C3_UpdateAfterSuccess ==
    /\ [](update_called => EveryChannelSucceeded)
    /\ [][(update_called' /\ ~update_called) => EveryChannelSucceeded]_vars
    /\ [][PushedSet => EveryChannelSucceeded]_vars

\* both channels are enabled, both succeeded, and the update was invoked
C3_Witness ==
    /\ update_called
    /\ use_email /\ use_wechat
    /\ DOMAIN results = {"email", "wechat"}
    /\ results["email"] /\ results["wechat"]
    /\ Len(filtered_items) = 2

----------------------------------------------------------------------------
(* Properties of _fetch_page_data *)

JsonOk(resp) == resp.status = 200 /\ resp.json_type

\* the body parsed as an object whose success flag is not 1
SucNotOne(resp) == JsonOk(resp) /\ resp.body.json = "dict" /\ resp.body.suc # IntV(1)

\* the body did not parse as JSON
DecodeError(resp) == JsonOk(resp) /\ resp.body.json = "invalid"

EverySucZero ==
    \A k \in 1..Len(fetch_log) :
        SucNotOne(fetch_log[k].resp) /\ fetch_log[k].resp.body.suc = IntV(0)

\* C9: when every attempt is answered with HTTP 200, a JSON content type and
\* a body whose success flag is 0, _fetch_page_data returns exactly when it
\* has made MAX_RETRY attempts, and it returns the empty list.
C9_SucZeroExhausts ==
    EverySucZero =>
        /\ (fpc = "returned") <=> (Len(fetch_log) = MAX_RETRY)
        /\ Len(fetch_log) <= MAX_RETRY
        /\ fetch_items = <<>>

C9_Witness ==
    /\ EverySucZero
    /\ fpc = "returned"
    /\ Len(fetch_log) = MAX_RETRY

Last(k) == k = Len(fetch_log)

\* C10: on HTTP 200 with a JSON content type, a body whose success flag is
\* not 1 triggers a token refresh (its failure swallowed) without the HTML
\* fallback and the attempt counts as failed; a body that is not JSON runs
\* the HTML fallback on the raw body without a token refresh, and the
\* fallback's items are returned at once.
C10_FailureCases ==
    \A k \in 1..Len(fetch_log) :
        LET a == fetch_log[k]
        IN  /\ SucNotOne(a.resp) =>
                /\ a.refresh \in {"ok", "raised"}
                /\ ~a.html
                /\ a.outcome = "retry"
                /\ Last(k) => (retry_count = k /\ fetch_items = <<>>)
            /\ DecodeError(a.resp) =>
                /\ a.refresh = "none"
                /\ a.html
                /\ a.outcome = "return"
                /\ Last(k)
                /\ fpc = "returned"
                /\ fetch_items = _parse_html_content(a.resp.body.html)
                /\ fetch_items # <<>>

C10_Witness ==
    /\ Len(fetch_log) = 2
    /\ SucNotOne(fetch_log[1].resp)
    /\ fetch_log[1].refresh = "ok"
    /\ DecodeError(fetch_log[2].resp)
    /\ fpc = "returned"
    /\ Len(fetch_items) = 5

\* C10 as stated: in both failure cases a token refresh, then the HTML
\* fallback on the raw body, its items returned at once
C10_RefreshThenFallback ==
    \A k \in 1..Len(fetch_log) :
        LET a == fetch_log[k]
        IN  (SucNotOne(a.resp) \/ DecodeError(a.resp)) =>
                /\ a.refresh \in {"ok", "raised"}
                /\ a.html
                /\ a.outcome = "return"

----------------------------------------------------------------------------
(* Properties of the session cookies *)

GotOrUpdated == cookie_op.op = "get_or_update"

\* C19: _get_or_update_cookies never returns None, whatever the in-memory
\* state, the side file and the environment are.
C19_NeverNone == GotOrUpdated => cookie_op.ret # "None"

\* C20 as stated: the refresh runs iff no cookies are held (None) or their age
\* is above cookies_expire_time; otherwise the held cookies are returned with
\* no read or write of the side file and cookies_last_updated as it was
C20_RefreshIffNoneOrStale ==
    GotOrUpdated =>
        /\ cookie_op.refreshed <=>
               (cookie_op.held = "None" \/ cookie_op.age > cookies_expire_time)
        /\ (cookie_op.held # "None" /\ cookie_op.age <= cookies_expire_time) =>
               /\ cookie_op.ret = cookie_op.held
               /\ ~cookie_op.read /\ ~cookie_op.wrote
               /\ cookie_op.file_same /\ cookie_op.last_same

\* C20: _get_or_update_cookies runs _update_cookies iff the held cookies are
\* None or empty or their age is above cookies_expire_time (3600 s); with
\* non-empty cookies of age at most 3600 s it returns them unchanged, does not
\* read or write the side file and leaves cookies_last_updated as it was.
C20_RefreshPolicy ==
    GotOrUpdated =>
        /\ cookie_op.refreshed <=>
               (NoCookies(cookie_op.held) \/ cookie_op.age > cookies_expire_time)
        /\ ~cookie_op.refreshed =>
               /\ cookie_op.ret = cookie_op.held
               /\ cookies = cookie_op.held
               /\ ~cookie_op.read /\ ~cookie_op.wrote
               /\ cookie_op.file_same /\ cookie_op.last_same

\* cookies held for exactly cookies_expire_time seconds are returned as they are
C20_Witness ==
    /\ GotOrUpdated
    /\ cookie_op.held = "default"
    /\ cookie_op.age = cookies_expire_time
    /\ ~cookie_op.refreshed
    /\ cookie_op.ret = "default"

----------------------------------------------------------------------------
(* Properties of the retry loop *)

\* the attempts so far that did not return
FailedAttempts == {k \in 1..Len(fetch_log) : fetch_log[k].outcome # "return"}

\* C11: whatever the upstream answers (non-200, request exception or timeout,
\* unusable body, failing cookie refresh), _fetch_page_data ends, makes at
\* most MAX_RETRY attempts, steps retry_count once for every attempt that
\* does not return, and returns a list.
C11_Terminates ==
    /\ <>(fpc = "returned")
    /\ [](Len(fetch_log) <= MAX_RETRY)
    /\ [](retry_count = Cardinality(FailedAttempts))
    /\ [](fpc = "returned" =>
             \/ fetch_log[Len(fetch_log)].outcome = "return"
             \/ retry_count = MAX_RETRY /\ fetch_items = <<>>)

\* three failures of three kinds, then the empty list
C11_Witness ==
    /\ fpc = "returned"
    /\ Len(fetch_log) = MAX_RETRY
    /\ fetch_log[1].resp.status = 0
    /\ fetch_log[2].resp.status = 403 /\ fetch_log[2].refresh # "none"
    /\ fetch_log[3].resp.status = 200 /\ fetch_log[3].resp.body.json = "other"
    /\ retry_count = MAX_RETRY
    /\ fetch_items = <<>>

\* C12: after every failed attempt that is followed by another one there is a
\* backoff sleep of 2 * retry_count seconds (2 s after the first, 4 s after
\* the second), and there is none after the last attempt.
C12_BackoffBetweenAttempts ==
    \A k \in FailedAttempts :
        fetch_log[k].sleep = IF k < MAX_RETRY THEN 2 * k ELSE 0

\* what holds of the backoff: it follows the failed attempts that reach the
\* loop tail, and no non-200 attempt
C12_BackoffAtLoopTail ==
    \A k \in FailedAttempts :
        fetch_log[k].sleep =
            IF k < MAX_RETRY /\ fetch_log[k].resp.status \in {0, 200}
            THEN 2 * k ELSE 0

----------------------------------------------------------------------------
(* Properties of crawl_zdm_data *)

\* the events of a whole call, the items aside: every url of ZDM_URL in list
\* order, each called, returned and followed by the pacing sleep
RECURSIVE CrawlOrder(_)
CrawlOrder(i) ==
    IF i > Len(ZDM_URL) THEN <<>>
    ELSE <<[ev |-> "call", url |-> i], [ev |-> "return", url |-> i],
           [ev |-> "sleep", url |-> i]>> \o CrawlOrder(i + 1)

Events == [k \in 1..Len(crawl_log) |->
              [ev |-> crawl_log[k].ev, url |-> crawl_log[k].url]]

\* the lists returned so far, in the order of their calls, joined
RECURSIVE Returned(_)
Returned(k) ==
    IF k = 0 THEN <<>>
    ELSE Returned(k - 1) \o crawl_log[k].items

\* C13: crawl_zdm_data calls _fetch_page_data for every url of ZDM_URL, one
\* at a time and in list order; a call that returns nothing does not stop
\* the remaining calls; a sleep of one second follows every call, so one
\* separates every two consecutive calls; and the result is the per-url
\* results joined in url order.
C13_Sequential ==
    /\ Len(crawl_log) <= Len(CrawlOrder(1))
    /\ Events = SubSeq(CrawlOrder(1), 1, Len(crawl_log))
    /\ all_items = Returned(Len(crawl_log))
    /\ (cpc = "returned") <=> (Len(crawl_log) = Len(CrawlOrder(1)))

\* the first url gave nothing, the second and the third gave items
C13_Witness ==
    /\ cpc = "returned"
    /\ crawl_log[2].items = <<>>
    /\ Len(crawl_log[5].items) = 1
    /\ Len(crawl_log[8].items) = 3
    /\ crawl_log[5].items[1].article_id # crawl_log[8].items[1].article_id
    /\ Len(all_items) = 4

----------------------------------------------------------------------------
(* Properties of the upserts and of the pushed-id snapshot *)

BatchIds(data_list) == {data_list[k].article_id : k \in 1..Len(data_list)}

\* the last item of the batch with the given id
LastOf(data_list, id) ==
    data_list[CHOOSE k \in 1..Len(data_list) :
                  /\ data_list[k].article_id = id
                  /\ \A j \in (k + 1)..Len(data_list) : data_list[j].article_id # id]

Batched == store_op.op = "save_or_update_batch"

\* C14: save_or_update_batch is all-or-nothing: when the write of an item
\* fails the rows after the call are the rows before it, the items written
\* before the failing one included, and the error is raised; when none fails
\* every item of the batch is committed.
C14_AllOrNothing ==
    Batched =>
        IF store_op.raised
        THEN db = store_op.before /\ disk = store_op.before
        ELSE /\ disk = db
             /\ DOMAIN db = DOMAIN store_op.before \cup BatchIds(store_op.items)
             /\ \A id \in DOMAIN db :
                    db[id] = IF id \in BatchIds(store_op.items)
                             THEN Row(LastOf(store_op.items, id))
                             ELSE store_op.before[id]

\* a batch of three failed with a row of it not in the table before
C14_Witness ==
    /\ Batched
    /\ store_op.raised
    /\ Len(store_op.items) = 3
    /\ store_op.items[1].article_id \notin DOMAIN store_op.before
    /\ db = store_op.before

Upserted == store_op.op = "save_or_update"

\* C15: the table holds one row per id, the row of id under its key; an
\* upsert of an id that is there succeeds and replaces every field of the
\* row by the item's; the same upsert applied again leaves the table as it is.
C15_Replace ==
    /\ \A id \in DOMAIN db : db[id].article_id = id
    /\ Upserted =>
           LET data == store_op.items[1]
           IN  /\ ~store_op.raised
               /\ DOMAIN db = DOMAIN store_op.before \cup {data.article_id}
               /\ db[data.article_id] = Row(data)
               /\ \A id \in DOMAIN db \ {data.article_id} :
                      db[id] = store_op.before[id]
               /\ InsertOrReplace(db, data) = db
               /\ (store_prev.op = "save_or_update" /\ store_prev.items = store_op.items)
                      => db = store_op.before
    /\ (Batched /\ ~store_op.raised) =>
           /\ InsertAll(db, store_op.items, 1) = db
           /\ (store_prev = [store_op EXCEPT !.before = store_prev.before])
                  => db = store_op.before

\* the same item upserted twice over a row of its id with other fields
C15_Witness ==
    /\ Upserted
    /\ store_prev.op = "save_or_update"
    /\ store_prev.items = store_op.items
    /\ store_op.items[1].article_id \in DOMAIN store_prev.before
    /\ store_prev.before[store_op.items[1].article_id] # Row(store_op.items[1])
    /\ db[store_op.items[1].article_id] = Row(store_op.items[1])

Min(S) == CHOOSE x \in S : \A y \in S : x <= y

\* a >= b in the order of the strings: at the first place where they differ a
\* has the greater character, or b is a prefix of a
LexGe(a, b) ==
    LET n == IF Len(a) < Len(b) THEN Len(a) ELSE Len(b)
        diff == {k \in 1..n : a[k] # b[k]}
    IN  IF diff = {} THEN Len(a) >= Len(b)
        ELSE CharCode(a[Min(diff)]) > CharCode(b[Min(diff)])

Cutoff == DateStr(StartDay - WindowDays)

\* C16: get_pushed_ids returns exactly the ids of the rows with pushed = 1
\* whose article_time is a string not below the date string of 30 days before
\* now; rows with pushed = 0 and pushed rows with an empty, missing or older
\* article_time are not in it.
C16_PushedIds ==
    store_op.op = "get_pushed_ids" =>
        /\ pushed_ids =
               {id \in DOMAIN db :
                   /\ db[id].pushed = 1
                   /\ db[id].article_time # NullTime
                   /\ LexGe(db[id].article_time, Cutoff)}
        /\ \A id \in DOMAIN db :
               (\/ db[id].pushed = 0
                \/ db[id].article_time \in {NoTime, NullTime, OldTime})
                   => id \notin pushed_ids
        /\ \A id \in DOMAIN db :
               (db[id].pushed = 1 /\ db[id].article_time \in {EdgeTime, RecentTime})
                   => id \in pushed_ids

\* a pushed row dated on the cutoff day is in the snapshot
C16_Witness ==
    /\ store_op.op = "get_pushed_ids"
    /\ "a" \in DOMAIN db
    /\ db["a"].pushed = 1
    /\ db["a"].article_time = EdgeTime
    /\ "a" \in pushed_ids

----------------------------------------------------------------------------
(* Properties of the extracted items *)

\* C17: for every list of items the extractor can produce and every set of
\* pushed ids process_data completes without raising, so a run whose crawl
\* returned items of a degraded extraction path goes on to persistence and
\* notification instead of ending with False (exit code 1).
C17_ProcessCompletes ==
    pc = "process" => ~process_data(raw_items, pushed_ids).raised

\* the fields the item contract fixes
WellFormedItem(item) ==
    /\ item.article_id # ""
    /\ item.title # <<>>
    /\ item.url # <<>>
    /\ item.voted.t = "int" /\ item.voted.v >= 0
    /\ item.comments.t = "int" /\ item.comments.v >= 0
    /\ item.pushed = FALSE

\* C18: every item _fetch_page_data returns, on the structured path and on
\* the three paths of _parse_html_content, has a non-empty id, title and url,
\* integer votes and comments that are not negative, and pushed = False.
C18_ItemsWellFormed ==
    \A k \in 1..Len(fetch_items) : WellFormedItem(fetch_items[k])

\* the items of the structured path alone are well formed
C18_StructuredWellFormed ==
    (fpc = "returned" /\ fetch_items # <<>> /\ ~fetch_log[Len(fetch_log)].html)
        => C18_ItemsWellFormed

----------------------------------------------------------------------------
(* Properties of the refresh of the session cookies *)

\* a step that ran _update_cookies, directly or from _get_or_update_cookies
RefreshStep ==
    /\ ticks' = ticks
    /\ cookie_op'.op \in {"get_or_update", "update"}
    /\ cookie_op'.refreshed

\* the side file is a JSON object with a numeric timestamp of that age
FileAged(f, now_s) ==
    IF f.kind = "dict" /\ f.has_ts /\ f.timestamp.t = "int"
    THEN now_s - f.timestamp.v
    ELSE -1

\* C21: in a refresh outside a headless environment the cookies of the side
\* file become the held cookies when the file's age is within the TTL; when
\* the file is absent, unreadable or older than the TTL the held cookies after
\* the refresh are the newly made default cookies, never the expired
\* cookies of the file.
C21_FileOrPlaceholder ==
    [][(RefreshStep /\ ~is_ci) =>
          LET age == FileAged(cookies_file, clock)
          IN  /\ (age >= 0 /\ age < cookies_expire_time
                  /\ cookies_file.cookies = "cached")
                     => cookies' = "cached"
              /\ (\/ cookies_file.kind \in {"absent", "unreadable"}
                  \/ age > cookies_expire_time)
                     => cookies' = "default"]_vars

\* what holds: a fresh file is taken over, and a refresh that starts without
\* held cookies and finds no file, or a file without cookies, makes the
\* default cookies
C21_FreshFileOrDefault ==
    [][(RefreshStep /\ ~is_ci) =>
          LET age == FileAged(cookies_file, clock)
          IN  /\ (age >= 0 /\ age < cookies_expire_time)
                     => cookies' = FileCookies(cookies_file)
              /\ (/\ NoCookies(cookies)
                  /\ cookies_file.kind \in {"absent", "unreadable"})
                     => cookies' = "default"
              /\ (age >= cookies_expire_time
                  /\ NoCookies(FileCookies(cookies_file)))
                     => cookies' = "default"]_vars

----------------------------------------------------------------------------
(* Properties of the HTML fallback *)

IsPrefix(p, q) == Len(p) <= Len(q) /\ SubSeq(q, 1, Len(p)) = p

\* C22: for a document in which no selector matches and no link has a text
\* of more than 10 characters, _parse_html_content returns the batch of
\* _get_mock_data: 5 items, every id starting with "mock_", the ids of the
\* batch pairwise distinct.
C22_MockBatch ==
    (/\ epc = "done"
     /\ html_content.ok
     /\ html_content.blocks = <<>>
     /\ \A k \in 1..Len(html_content.links) : html_content.links[k] <= 10)
        => /\ Len(html_items) = 5
           /\ \A i \in 1..5 :
                  IsPrefix(<<"m", "o", "c", "k", "_">>, html_items[i].article_id)
           /\ \A i, j \in 1..5 :
                  i # j => html_items[i].article_id # html_items[j].article_id

\* a page with two short links gave the batch, all of it built in one second
C22_Witness ==
    /\ epc = "done"
    /\ html_content = Document(TRUE, <<>>, <<10, 0>>)
    /\ Len(html_items) = 5
    /\ html_items[1].article_id = MockId(clock, 0)
    /\ html_items[5].article_id = MockId(clock, 4)

----------------------------------------------------------------------------
(* Properties of str_number_format *)

\* the argument is a string whose strip ends in one of the two letters and
\* whose prefix is an unsigned decimal literal
UnitArg(x, letters) ==
    /\ x.t = "text"
    /\ Strip(x.s) # <<>>
    /\ Strip(x.s)[Len(Strip(x.s))] \in letters
    /\ LET f == ParseFloat(SubSeq(Strip(x.s), 1, Len(Strip(x.s)) - 1))
           t == Strip(SubSeq(Strip(x.s), 1, Len(Strip(x.s)) - 1))
       IN  f.ok /\ Head(t) \notin {"+", "-"}

\* r is an integer nearest to prefix * unit
NearestTo(r, prefix, unit) ==
    LET f == ParseFloat(prefix)
        d == r * f.den - f.num * unit
    IN  2 * (IF d < 0 THEN -d ELSE d) <= f.den

PrefixOf(x) == SubSeq(Strip(x.s), 1, Len(Strip(x.s)) - 1)

\* C23: str_number_format follows the unit rules: an empty or blank string
\* gives 0; a decimal prefix before k/K gives prefix * 1000 and before w/W
\* prefix * 10000, rounded to the nearest integer; a string without such a
\* suffix gives the integer of its digit characters, 0 when it has none.
C23_UnitRules ==
    (epc = "done" /\ number_arg.t = "text") =>
        /\ ~number_ret.raised
        /\ Strip(number_arg.s) = <<>> => number_ret.v = 0
        /\ UnitArg(number_arg, {"k", "K"})
               => NearestTo(number_ret.v, PrefixOf(number_arg), 1000)
        /\ UnitArg(number_arg, {"w", "W"})
               => NearestTo(number_ret.v, PrefixOf(number_arg), 10000)
        /\ (/\ Strip(number_arg.s) # <<>>
            /\ Strip(number_arg.s)[Len(Strip(number_arg.s))] \notin {"k", "K", "w", "W"})
               => number_ret.v = DigitsToInt(OnlyDigits(number_arg.s))

\* what holds: the same rules with the scaled value cut to its integer part
C23_UnitRulesTruncating ==
    (epc = "done" /\ number_arg.t = "text") =>
        /\ ~number_ret.raised
        /\ Strip(number_arg.s) = <<>> => number_ret.v = 0
        /\ \A unit \in {1000, 10000} :
               UnitArg(number_arg, IF unit = 1000 THEN {"k", "K"} ELSE {"w", "W"})
                   => LET f == ParseFloat(PrefixOf(number_arg))
                      IN  /\ number_ret.v * f.den <= f.num * unit
                          /\ f.num * unit < (number_ret.v + 1) * f.den
        /\ (/\ Strip(number_arg.s) # <<>>
            /\ Strip(number_arg.s)[Len(Strip(number_arg.s))] \notin {"k", "K", "w", "W"})
               => number_ret.v = DigitsToInt(OnlyDigits(number_arg.s))
        /\ number_arg.s = <<"1", ".", "5", "k">> => number_ret.v = 1500
        /\ number_arg.s = <<"5", "w">> => number_ret.v = 50000
        /\ number_arg.s = <<"a", "a", "a">> => number_ret.v = 0
        /\ number_arg.s = <<"1", "5", "9">> => number_ret.v = 159

\* C24: for every value the structured path can hand to it (any string, a
\* signed or non-numeric prefix before the suffix included, a JSON number
\* or null) str_number_format does not raise and returns an integer that is
\* not negative.
C24_NeverRaisesNonNegative ==
    epc = "done" => (~number_ret.raised /\ number_ret.v >= 0)

\* what holds: a string or null never raises, and the result is negative
\* only for a prefix with a minus sign
C24_StringsNeverRaise ==
    (epc = "done" /\ number_arg.t # "int") =>
        /\ ~number_ret.raised
        /\ number_ret.v < 0 => (number_arg.t = "text" /\ Head(Strip(number_arg.s)) = "-")

----------------------------------------------------------------------------
(* Properties of the start and the end of main() *)

\* every channel is disabled or incompletely configured
NoUsableChannel == ~usable_channel

\* the run ended with False before the store was used and before any crawl
AbortedAtStart ==
    /\ pc = "exited"
    /\ main_ret = "False"
    /\ crawls = 0
    /\ raw_items = <<>>
    /\ conn = "closed"
    /\ store_op = NoOp

\* C25: when the configuration has no usable channel (every channel disabled
\* or incomplete, both disabled included) the run returns False, exit code 1,
\* before any request and before the store is opened.
C25_AbortsWithoutChannel ==
    (pc # "start" /\ NoUsableChannel) => AbortedAtStart

\* what holds: the same when at least one channel is enabled
C25_AbortsWithIncompleteChannel ==
    (pc # "start" /\ NoUsableChannel /\ (use_email \/ use_wechat))
        => AbortedAtStart

C27_ExitCode ==
    [][/\ (pc \notin {"finally", "exited"} /\ pc' \in {"finally", "exited"})
          => /\ main_ret' \in {"True", "False"}
             /\ main_ret' = "False" <=>
                    \/ pc \in {"start", "init", "pushed_ids"}
                    \/ pc = "process" /\ process_data(raw_items, pushed_ids).raised
             /\ main_ret' = "True" <=>
                    \/ pc = "crawl" /\ raw_items' = <<>>
                    \/ pc = "process" /\ ~process_data(raw_items, pushed_ids).raised
                                      /\ filtered_items' = <<>>
                    \/ pc = "notify"
       /\ (pc = "finally" /\ pc' = "exited") => main_ret' = main_ret]_vars

\* a run that found no data in two crawls has returned True
C27_Witness ==
    /\ pc = "exited"
    /\ main_ret = "True"
    /\ crawls = 2
    /\ raw_items = <<>>

----------------------------------------------------------------------------
(* Properties of the structured path *)

\* the extraction of the record raises: the record is not an object, its
\* title is not a string, or one of its counts makes str_number_format raise
ExtractionFails(g) ==
    \/ ~g.dict
    \/ g.article_title \notin {AbsentV} /\ g.article_title.t # "text"
    \/ str_number_format(GetOr(g.article_vote, <<"0">>)).raised
    \/ str_number_format(GetOr(g.article_comment, <<"0">>)).raised

HasTitle(g) == g.article_title.t = "text" /\ Strip(g.article_title.s) # <<>>
HasUrl(g) == g.article_url.t = "text" /\ g.article_url.s # <<>>

\* the record has a non-empty id, a non-blank title and a non-empty url and
\* its extraction does not fail
Eligible(g) ==
    /\ g.article_id.t = "id" /\ g.article_id.s # ""
    /\ HasTitle(g)
    /\ HasUrl(g)
    /\ ~ExtractionFails(g)

\* the same with the id taken as the string str() makes of it
EligibleByIdString(g) ==
    /\ IdString(g.article_id) # ""
    /\ HasTitle(g)
    /\ HasUrl(g)
    /\ ~ExtractionFails(g)

\* out holds, in the order of the input, one item for each record of the
\* input that the test accepts, and nothing else
ItemsOf(out, in, Test(_)) ==
    LET kept == SelectSeq(in, Test)
    IN  /\ Len(out) = Len(kept)
        /\ \A j \in 1..Len(kept) :
               /\ out[j].article_id = IdString(kept[j].article_id)
               /\ out[j].title = Strip(kept[j].article_title.s)
               /\ out[j].url = kept[j].article_url.s
               /\ out[j].pushed = FALSE

\* C28: _parse_zdm_items returns, in the order of the input, one item for
\* every record with a non-empty id, a non-blank title and a non-empty url
\* whose extraction does not fail; a record without one of the three, or
\* whose extraction raises, is skipped and the records around it are not
\* affected; every item has pushed = False.
C28_OneItemPerEligibleRecord ==
    epc = "done" => ItemsOf(goods_out, goods_in, Eligible)

\* what holds: the same when a null id counts as the id "None"
C28_OneItemPerRecordWithIdString ==
    epc = "done" => ItemsOf(goods_out, goods_in, EligibleByIdString)

----------------------------------------------------------------------------
(* Properties of the non-200 branch *)

\* the step is a pass of the loop whose response has a status other than 200
Non200Pass ==
    /\ Len(fetch_log') = Len(fetch_log) + 1
    /\ fetch_log'[Len(fetch_log')].resp.status \notin {0, 200}

\* C29: on a response with a status other than 200 _fetch_page_data calls
\* _update_cookies iff the status is 401 or 403, goes on whether or not that
\* call fails, does not parse the body, and counts the response as exactly
\* one attempt of MAX_RETRY.
C29_Non200 ==
    [][Non200Pass =>
          LET a == fetch_log'[Len(fetch_log')]
          IN  /\ a.refresh # "none" <=> a.resp.status \in {401, 403}
              /\ ~a.html
              /\ a.outcome = "continue"
              /\ fetch_items' = fetch_items
              /\ retry_count' = retry_count + 1
              /\ fpc' = IF retry_count + 1 < MAX_RETRY THEN "loop" ELSE "returned"]_vars

\* a 403 whose refresh failed and a 500 were counted as two attempts
C29_Witness ==
    /\ Len(fetch_log) = 2
    /\ fetch_log[1].resp.status = 403 /\ fetch_log[1].refresh = "raised"
    /\ fetch_log[2].resp.status = 500 /\ fetch_log[2].refresh = "none"
    /\ retry_count = 2
    /\ fetch_items = <<>>
    /\ fpc = "loop"

----------------------------------------------------------------------------
(* Properties of the refresh in a CI environment *)

\* C30: in a CI environment _update_cookies returns at once with empty
\* cookies, sets cookies_last_updated to the current time, and neither reads
\* nor writes the side file, whatever the file holds.
C30_CiRefresh ==
    [][(RefreshStep /\ is_ci) =>
          /\ cookies' = "empty"
          /\ cookies_last_updated' = IntV(clock)
          /\ cookies_file' = cookies_file
          /\ ~cookie_op'.read
          /\ ~cookie_op'.wrote]_vars

\* a refresh in CI beside a side file with fresh cached cookies
C30_Witness ==
    /\ is_ci
    /\ cookie_op.op = "update"
    /\ cookie_op.refreshed
    /\ cookies_file = FileDict("cached", IntV(StartClock), TRUE)
    /\ cookies = "empty"
    /\ cookies_last_updated = IntV(clock)
    /\ clock > StartClock

----------------------------------------------------------------------------
(* Properties of clear_cookies *)

\* a step that ran clear_cookies
ClearStep == ticks' = ticks /\ cookie_op'.op = "clear_cookies"

\* the first _get_or_update_cookies after a clear_cookies
FirstGetAfterClear ==
    /\ ticks' = ticks
    /\ cookie_op.op = "clear_cookies"
    /\ cookie_op'.op = "get_or_update"

\* two token sets are the same mapping
SameTokens(c1, m1, c2, m2) == c1 = c2 /\ m1 = m2

\* what clear_cookies leaves: no cookies, cookies_last_updated 0, and no side
\* file unless its removal failed
Cleared ==
    /\ cookies' = "None"
    /\ cookies_last_updated' = IntV(0)
    /\ \/ cookies_file'.kind = "absent"
       \/ ~cookie_op'.removed /\ cookies_file' = cookies_file

----------------------------------------------------------------------------
(* Properties of the urls of the HTML paths *)

\* the url has the scheme http or https
IsAbsolute(u) ==
    \/ StartsWith(u, <<"h", "t", "t", "p", ":", "/", "/">>)
    \/ StartsWith(u, <<"h", "t", "t", "p", "s", ":", "/", "/">>)

\* some selector of the document gives three elements with a valid title
SelectorHit(doc) ==
    /\ doc.ok
    /\ \E b \in 1..Len(doc.blocks) :
           Cardinality({k \in 1..Len(doc.blocks[b]) : doc.blocks[b][k] > 5}) >= 3

\* no selector does, and a link has a text of more than 10 characters
LinkHit(doc) ==
    /\ doc.ok
    /\ ~SelectorHit(doc)
    /\ \E k \in 1..Len(doc.links) : k <= 50 /\ doc.links[k] > 10

\* C32: every item that _parse_html_content returns, from the selectors and
\* from the scan of the links alike, has an absolute url, a relative href
\* being resolved against https://www.smzdm.com.
C32_AbsoluteUrls ==
    epc = "done" =>
        \A k \in 1..Len(html_items) : IsAbsolute(html_items[k].url)

\* what holds: the selector path puts the origin in front of every href that
\* does not start with the letters http
C32_SelectorUrlsResolved ==
    (epc = "done" /\ SelectorHit(html_content)) =>
        \A k \in 1..Len(html_items) :
            /\ html_items[k].url = ResolveLink(html_content.href)
            /\ ~StartsWith(html_content.href, <<"h", "t", "t", "p">>)
                   => /\ StartsWith(html_items[k].url, Origin \o <<"/">>)
                      /\ IsAbsolute(html_items[k].url)

----------------------------------------------------------------------------
(* Properties of the HTML fallback inside _fetch_page_data *)

IsMockItem(item) == IsPrefix(<<"m", "o", "c", "k", "_">>, item.article_id)

\* the batch is one of the three the fallback gives on the document: three
\* or more selector items, one to ten link items, or the five mock items
FallbackBatch(doc, items) ==
    \/ /\ SelectorHit(doc)
       /\ Len(items) >= 3
       /\ \A k \in 1..Len(items) : ValidItem(items[k]) /\ ~IsMockItem(items[k])
    \/ /\ LinkHit(doc)
       /\ Len(items) \in 1..10
       /\ \A k \in 1..Len(items) : ~IsMockItem(items[k])
    \/ /\ ~SelectorHit(doc) /\ ~LinkHit(doc)
       /\ Len(items) = 5
       /\ \A k \in 1..Len(items) : IsMockItem(items[k])

\* the call returned because its attempts ran out
Exhausted ==
    /\ fpc = "returned"
    /\ fetch_log # <<>>
    /\ fetch_log[Len(fetch_log)].outcome # "return"

C35_WitnessExhausted ==
    /\ Exhausted
    /\ Len(fetch_log) = MAX_RETRY

----------------------------------------------------------------------------
(* Properties of the synthesized ids *)

\* C36: in a batch that _parse_html_content returns from the selectors or
\* from the scan of the links, the items of distinct elements have pairwise
\* distinct ids, so _remove_duplicates keeps every item of the batch.
C36_DistinctTempIds ==
    (epc = "done" /\ (SelectorHit(html_content) \/ LinkHit(html_content))) =>
        /\ \A i, j \in 1..Len(html_items) :
               i # j => html_items[i].article_id # html_items[j].article_id
        /\ _remove_duplicates(html_items) = html_items

\* what holds: items built in different seconds, or in one second with
\* different draws of randint(100, 999), have different ids, and
\* _remove_duplicates keeps the first item of every id
C36_IdsOfSecondAndDraw ==
    (epc = "done" /\ (SelectorHit(html_content) \/ LinkHit(html_content))) =>
        /\ \A i, j \in 1..Len(html_items) :
               html_items[i].article_id = html_items[j].article_id
                   <=> /\ SubSeq(html_items[i].article_id, 1, 5)
                             = SubSeq(html_items[j].article_id, 1, 5)
                       /\ SubSeq(html_items[i].article_id, 6, 8)
                             = SubSeq(html_items[j].article_id, 6, 8)
        /\ Len(_remove_duplicates(html_items))
               = Cardinality({html_items[k].article_id : k \in 1..Len(html_items)})

----------------------------------------------------------------------------
(* Properties of connect() *)

\* C33: after every connect() that returns, a call that follows a connect()
\* whose _create_tables failed included, the table ZDM is there with every
\* required column; a table found lacking a column is rebuilt with its rows
\* copied or, the copy failing, without them, and connect() returns all the
\* same.
C33_ConnectLeavesSchema ==
    last_connect.ret = "returned" =>
        /\ zdm = "complete"
        /\ last_connect.copy = "copied" => zdm_rows = last_connect.rows
        /\ last_connect.copy = "failed" => zdm_rows = 0

\* what holds: the same of every connect() that ran _create_tables
C33_SetupLeavesSchema ==
    (last_connect.ret = "returned" /\ last_connect.setup) =>
        /\ zdm = "complete"
        /\ last_connect.copy = "copied" => zdm_rows = last_connect.rows
        /\ last_connect.copy = "failed" => zdm_rows = 0

----------------------------------------------------------------------------
(* Properties of the pushed flag across runs *)

\* the row is one that get_pushed_ids returns today
InWindow(row, today) ==
    /\ row.pushed = 1
    /\ row.article_time # NullTime
    /\ SqlGe(row.article_time, one_month_ago(today))

\* the row keeps its pushed flag in this step
StaysPushed(id) == id \in DOMAIN db' /\ db'[id].pushed = 1

\* C34 as stated: once a row has pushed = 1, no operation of a later run of
\* main(), the batch upsert of the filtered items included, sets it back to 0.
C34_PushedMonotonic ==
    [][\A id \in DOMAIN db : db[id].pushed = 1 => StaysPushed(id)]_vars

\* C34 amended: a row with pushed = 1 whose article_time is on or after the
\* cutoff of the run (today - 30 days) keeps pushed = 1 through every
\* operation of the run; a pushed row that is older or has no article_time
\* is not among the pushed ids and is replaced with pushed = 0 by the batch
\* upsert of a run that crawls its id again.
C34_PushedKeptInWindow ==
    [][\A id \in DOMAIN db : InWindow(db[id], now) => StaysPushed(id)]_vars

\* a run crawled the id of the pushed row of the window again, saved another
\* item, and the row is as it was
C34_Witness ==
    /\ pc = "notify"
    /\ "a" \in ItemIds(raw_items)
    /\ store_op.op = "save_or_update_batch"
    /\ ~store_op.raised
    /\ "a" \in DOMAIN db /\ "b" \in DOMAIN db
    /\ InWindow(db["a"], now)
    /\ db["b"].pushed = 0

----------------------------------------------------------------------------
(* Properties of the retry of the crawl in main() *)

\* the run has crawled twice without an item
NoDataRun == crawls = 2 /\ raw_items = <<>>

\* C37: in a run of main(), an empty first crawl is followed by
\* clear_cookies() and exactly one more crawl, never a third; when the
\* second crawl is empty too the run ends with True without process_data,
\* without a write to the store and without a notification; a first crawl
\* that gave an item is never followed by a second one.
C37_RetryOnce ==
    [][/\ pc = "crawl" => (crawls' = crawls + 1 /\ crawls' <= 2)
       /\ (pc = "crawl" /\ crawls = 0 /\ raw_items' = <<>>) => pc' = "clear"
       /\ (pc = "crawl" /\ crawls = 0 /\ raw_items' # <<>>) => pc' = "process"
       /\ pc = "clear"
              => /\ pc' = "crawl"
                 /\ crawls' = 1
                 /\ cookies' = "None"
                 /\ cookies_last_updated' = IntV(0)
                 /\ cookie_op'.removed => cookies_file'.kind = "absent"
       /\ (pc = "crawl" /\ crawls = 1)
              => /\ raw_items = <<>>
                 /\ cookie_op.op = "clear_cookies"
                 /\ raw_items' # <<>> => pc' = "process"
                 /\ raw_items' = <<>>
                        => /\ pc' = "finally"
                           /\ main_ret' = "True"
                           /\ UNCHANGED <<db, disk, store_op, filtered_items,
                                          results, notified>>
       /\ NoDataRun
              => /\ pc \in {"finally", "exited"}
                 /\ main_ret = "True"
                 /\ filtered_items = <<>>
                 /\ results = <<>>
                 /\ notified = {}
                 /\ ~update_called
                 /\ store_op.op \notin {"save_or_update_batch",
                                        "update_pushed_status"}
                 /\ pc' # "start" => (db' = db /\ disk' = disk)]_vars

\* the first crawl gave nothing, the cookies it had made are cleared and the
\* side file is removed; the second crawl is to come
C37_Witness ==
    /\ pc = "crawl"
    /\ crawls = 1
    /\ raw_items = <<>>
    /\ cookie_op.op = "clear_cookies"
    /\ cookie_op.held = "default"
    /\ cookie_op.removed
    /\ cookies = "None"
    /\ cookies_file.kind = "absent"

\* the second crawl gave nothing either and the run has ended
C37_WitnessNoData ==
    /\ NoDataRun
    /\ pc = "exited"
    /\ run = 2
    /\ db # EmptyTable

============================================================================
